---- MODULE Spec2Model ----
(***************************************************************************)
(* A model of the FAT12/16/32 library of this repository: the FAT engine   *)
(* and cluster iterator (fatfs/src/table.rs), the cluster-chain stream     *)
(* (fatfs/src/file.rs), the directory records (fatfs/src/dir_entry.rs) and *)
(* the directory engine with its path resolver (fatfs/src/dir.rs).         *)
(*                                                                         *)
(* The volume is a FAT (one raw entry per cluster) and a linear array of   *)
(* 32-byte slots.  Slot addresses are byte positions divided by 32; the    *)
(* area in front of cluster 2 is the fixed root directory region of a      *)
(* FAT12/16 volume (on FAT32 it is the reserved area in front of the data).*)
(* A slot holds the fields of a directory record; a slot of file data      *)
(* filled with byte b holds the fields those 32 bytes decode to.           *)
(* Strings are sequences of character codes.  Option<T> is <<>> for None   *)
(* and <<x>> for Some(x).  All stream positions are multiples of 32.       *)
(***************************************************************************)
EXTENDS Integers, Sequences, FiniteSets, TLC

VARIABLES
    fat_type,   \* "Fat12" | "Fat16" | "Fat32", fixed at mount
    fat,        \* cluster -> raw FAT entry
    disk,       \* slot address -> directory record fields (or file data)
    h,          \* the open file handle: None or Some(File)
    opened,     \* the path the open file handle was opened by
    last,       \* the last public call: its name, arguments, result and pre-state
    steps       \* number of public calls made so far

vars == <<fat_type, fat, disk, h, opened, last, steps>>

-----------------------------------------------------------------------------
(* Bounds of the model *)

MaxCluster == 5          \* clusters are numbered 2..MaxCluster
SlotsPerCluster == 2     \* directory records per cluster
RootSlots == 2           \* records of the area in front of cluster 2
MaxSteps == 4            \* public calls per behaviour
RtSetup == 1             \* calls made before the second and the third program start
FatSteps == 2            \* writes of FAT entries per behaviour of the fourth program
DirSlots == 4            \* records drawn for the root directory of the fifth program
NameLen == 2             \* characters drawn for the start of a name of the sixth program

(* Program constants *)

DIR_ENTRY_SIZE == 32
DIR_ENTRY_FREE_FLAG == 229
RootCluster == 2

cluster_size == SlotsPerCluster * DIR_ENTRY_SIZE
DataStart == RootSlots * DIR_ENTRY_SIZE
RootSize == RootSlots * DIR_ENTRY_SIZE
NumSlots == RootSlots + (MaxCluster - 1) * SlotsPerCluster

offset_from_cluster(n) == DataStart + (n - 2) * cluster_size

None == <<>>
Some(x) == <<x>>
Min(a, b) == IF a < b THEN a ELSE b

-----------------------------------------------------------------------------
(* FAT engine: table.rs *)

Free == [tag |-> "Free", n |-> 0]
Bad == [tag |-> "Bad", n |-> 0]
EndOfChain == [tag |-> "EndOfChain", n |-> 0]
Data(n) == [tag |-> "Data", n |-> n]

BadRaw(ft) == CASE ft = "Fat12" -> 4087 [] ft = "Fat16" -> 65527 [] OTHER -> 268435447
EocMin(ft) == CASE ft = "Fat12" -> 4088 [] ft = "Fat16" -> 65528 [] OTHER -> 268435448
EocRaw(ft) == CASE ft = "Fat12" -> 4095 [] ft = "Fat16" -> 65535 [] OTHER -> 268435455

\* Fat12/Fat16/Fat32::get_raw: the entry masked to its width
get_raw(f, ft, cluster) ==
    IF ft = "Fat32" THEN f[cluster] % 268435456 ELSE f[cluster]

\* Fat12/Fat16/Fat32::get
read_fat(f, ft, cluster) ==
    LET val == get_raw(f, ft, cluster)
    IN IF val = 0 THEN Free
       ELSE IF val = BadRaw(ft) THEN Bad
       ELSE IF val >= EocMin(ft) THEN EndOfChain
       ELSE Data(val)

\* Fat12/Fat16/Fat32::set
write_fat(f, ft, cluster, value) ==
    LET raw_val == CASE value.tag = "Free" -> 0
                     [] value.tag = "Bad" -> BadRaw(ft)
                     [] value.tag = "EndOfChain" -> EocRaw(ft)
                     [] OTHER -> IF ft = "Fat32" THEN value.n ELSE value.n % 65536
    IN [f EXCEPT ![cluster] = raw_val]

get_next_cluster(f, ft, cluster) ==
    LET val == read_fat(f, ft, cluster)
    IN IF val.tag = "Data" THEN Some(val.n) ELSE None

\* find_free: scan upward from the hint; the read past the last entry fails
find_free_cluster(f, ft, hint) ==
    LET free == {c \in hint..MaxCluster : get_raw(f, ft, c) = 0}
    IN IF free = {} THEN None
       ELSE Some(CHOOSE c \in free : \A d \in free : c <= d)

alloc_cluster(f, ft, prev_cluster) ==
    LET Linked(f1, new) ==
            [ok |-> TRUE,
             fat |-> IF prev_cluster # None
                     THEN write_fat(f1, ft, prev_cluster[1], Data(new))
                     ELSE f1,
             cluster |-> new]
        Found(new_cluster) ==
            IF new_cluster = None THEN [ok |-> FALSE, fat |-> f, cluster |-> 0]
            ELSE Linked(write_fat(f, ft, new_cluster[1], EndOfChain), new_cluster[1])
    IN Found(find_free_cluster(f, ft, 2))

\* a free() that stops after the first cluster
IterFreeFirstOnly(f, ft, cluster) ==
    IF cluster = None THEN f ELSE write_fat(f, ft, cluster[1], Free)

\* ClusterIterator::free, from the iterator's cluster (an Option)
RECURSIVE IterFree(_, _, _)
IterFree(f, ft, cluster) ==
    IF cluster = None THEN f
    ELSE LET nxt == get_next_cluster(f, ft, cluster[1])
         IN IterFree(write_fat(f, ft, cluster[1], Free), ft, nxt)

\* a truncate() that never marks cluster n as the end of the chain
IterTruncateNoMark(f, ft, n) == f

\* ClusterIterator::truncate of an iterator made by new(n)
IterTruncate(f, ft, n) ==
    LET Marked(f1) == IterFree(f1, ft, get_next_cluster(f1, ft, n))
    IN Marked(write_fat(f, ft, n, EndOfChain))

\* the clusters a walk from `start` visits: start, then each Data successor
RECURSIVE ChainFrom(_, _, _, _)
ChainFrom(f, ft, cluster, fuel) ==
    IF cluster = None \/ fuel = 0 THEN <<>>
    ELSE <<cluster[1]>> \o ChainFrom(f, ft, get_next_cluster(f, ft, cluster[1]), fuel - 1)

Chain(f, ft, first) == ChainFrom(f, ft, first, MaxCluster)

-----------------------------------------------------------------------------
(* FAT entries on disk: the impls of FatTrait in table.rs.  Here a FAT is its
   bytes, b[0], b[1], ...; integers are little-endian. *)

\* the | of two unsigned integers
RECURSIVE BitOr(_, _)
BitOr(x, y) ==
    IF x = 0 THEN y
    ELSE IF y = 0 THEN x
    ELSE (IF x % 2 = 1 \/ y % 2 = 1 THEN 1 ELSE 0) + 2 * BitOr(x \div 2, y \div 2)

\* read_u16 / read_u32 at byte offset o: n bytes, little-endian
RECURSIVE read_le(_, _, _)
read_le(b, o, n) == IF n = 0 THEN 0 ELSE b[o] + 256 * read_le(b, o + 1, n - 1)

\* write_u16 / write_u32 of val at byte offset o: n bytes, little-endian
write_le(b, o, n, val) ==
    [a \in DOMAIN b |->
        IF a >= o /\ a < o + n THEN (val \div (256 ^ (a - o))) % 256 ELSE b[a]]

\* the match of get: the FatValue a raw entry stands for
FatValueOf(ft, val) ==
    IF val = 0 THEN Free
    ELSE IF val = BadRaw(ft) THEN Bad
    ELSE IF val >= EocMin(ft) THEN EndOfChain
    ELSE Data(val)

\* the match of set: raw_val: a u16 for Fat12 and Fat16 (n as u16), a u32 for Fat32
RawVal(ft, value) ==
    CASE value.tag = "Free" -> 0
      [] value.tag = "Bad" -> BadRaw(ft)
      [] value.tag = "EndOfChain" -> EocRaw(ft)
      [] OTHER -> IF ft = "Fat32" THEN value.n ELSE value.n % 65536

Fat12_get_raw(b, cluster) ==
    LET packed_val == read_le(b, cluster + (cluster \div 2), 2)
    IN IF cluster % 2 = 0 THEN packed_val % 4096 ELSE packed_val \div 16

\* a Fat12::set that stores the entry as a whole u16
Fat12_set_whole(b, cluster, value) ==
    write_le(b, cluster + (cluster \div 2), 2,
             IF cluster % 2 = 0 THEN RawVal("Fat12", value)
             ELSE (RawVal("Fat12", value) * 16) % 65536)

\* a Fat12::set that takes even clusters for the high 12 bits of the word
Fat12_set_swapped(b, cluster, value) ==
    LET fat_offset == cluster + (cluster \div 2)
        old_packed == read_le(b, fat_offset, 2)
        new_packed ==
            IF cluster % 2 = 1
            THEN BitOr(old_packed - (old_packed % 4096), RawVal("Fat12", value))
            ELSE BitOr(old_packed % 16, (RawVal("Fat12", value) * 16) % 65536)
    IN write_le(b, fat_offset, 2, new_packed)

Fat12_set(b, cluster, value) ==
    LET fat_offset == cluster + (cluster \div 2)
        old_packed == read_le(b, fat_offset, 2)
        new_packed ==
            IF cluster % 2 = 0
            THEN BitOr(old_packed - (old_packed % 4096), RawVal("Fat12", value))
            ELSE BitOr(old_packed % 16, (RawVal("Fat12", value) * 16) % 65536)
    IN write_le(b, fat_offset, 2, new_packed)

Fat16_get_raw(b, cluster) == read_le(b, cluster * 2, 2)

Fat16_set(b, cluster, value) == write_le(b, cluster * 2, 2, RawVal("Fat16", value))

\* read_u32 & 0x0FFFFFFF: the low three bytes and the low half of the fourth
Fat32_get_raw(b, cluster) ==
    read_le(b, cluster * 4, 3) + 16777216 * (b[cluster * 4 + 3] % 16)

Fat32_set(b, cluster, value) == write_le(b, cluster * 4, 4, RawVal("Fat32", value))

\* read_fat and write_fat on the bytes of the FAT
ReadFat(b, ft, cluster) ==
    FatValueOf(ft, CASE ft = "Fat12" -> Fat12_get_raw(b, cluster)
                     [] ft = "Fat16" -> Fat16_get_raw(b, cluster)
                     [] OTHER -> Fat32_get_raw(b, cluster))

WriteFat(b, ft, cluster, value) ==
    CASE ft = "Fat12" -> Fat12_set(b, cluster, value)
      [] ft = "Fat16" -> Fat16_set(b, cluster, value)
      [] OTHER -> Fat32_set(b, cluster, value)

\* a read of n bytes at offset o stays inside the FAT; a read that does not
\* fails (read_exact over the slice)
CanRead(b, o, n) == o >= 0 /\ o + n - 1 \in DOMAIN b

\* get_raw reads its word inside the FAT
CanGet(b, ft, cluster) ==
    CASE ft = "Fat12" -> CanRead(b, cluster + (cluster \div 2), 2)
      [] ft = "Fat16" -> CanRead(b, cluster * 2, 2)
      [] OTHER -> CanRead(b, cluster * 4, 4)

\* the loop of Fat12::find_free: `cluster` is being examined, packed_val holds
\* its 16 bits and the stream stands at pos.  None when a read fails.
RECURSIVE Fat12_scan(_, _, _, _)
Fat12_scan(b, cluster, packed_val, pos) ==
    LET val == IF cluster % 2 = 0 THEN packed_val % 4096 ELSE packed_val \div 16
    IN IF val = 0 THEN Some(cluster)
       ELSE IF (cluster + 1) % 2 = 0
            THEN IF ~CanRead(b, pos, 2) THEN None
                 ELSE Fat12_scan(b, cluster + 1, read_le(b, pos, 2), pos + 2)
            ELSE IF ~CanRead(b, pos, 1) THEN None
                 ELSE Fat12_scan(b, cluster + 1,
                                 BitOr(packed_val \div 256, (b[pos] * 256) % 65536), pos + 1)

\* a find_free that takes entry n for the low 12 bits of the word at 2 * n
Fat12_find_free_words(b, hint_cluster) ==
    LET free == {c \in hint_cluster..(4 * (MaxCluster + 2)) :
                    CanRead(b, c * 2, 2) /\ read_le(b, c * 2, 2) % 4096 = 0}
    IN IF free = {} THEN None ELSE Some(CHOOSE c \in free : \A d \in free : c <= d)

Fat12_find_free(b, hint_cluster) ==
    LET fat_offset == hint_cluster + (hint_cluster \div 2)
    IN IF ~CanRead(b, fat_offset, 2) THEN None
       ELSE Fat12_scan(b, hint_cluster, read_le(b, fat_offset, 2), fat_offset + 2)

RECURSIVE Fat16_find_free(_, _)
Fat16_find_free(b, cluster) ==
    IF ~CanRead(b, cluster * 2, 2) THEN None
    ELSE IF read_le(b, cluster * 2, 2) = 0 THEN Some(cluster)
    ELSE Fat16_find_free(b, cluster + 1)

RECURSIVE Fat32_find_free(_, _)
Fat32_find_free(b, cluster) ==
    IF ~CanRead(b, cluster * 4, 4) THEN None
    ELSE IF Fat32_get_raw(b, cluster) = 0 THEN Some(cluster)
    ELSE Fat32_find_free(b, cluster + 1)

\* find_free_cluster on the bytes of the FAT: Some(cluster), or None for Err
FindFreeCluster(b, ft, cluster) ==
    CASE ft = "Fat12" -> Fat12_find_free(b, cluster)
      [] ft = "Fat16" -> Fat16_find_free(b, cluster)
      [] OTHER -> Fat32_find_free(b, cluster)

\* alloc_cluster on the bytes of the FAT
AllocCluster(b, ft, prev_cluster) ==
    LET Linked(b1, new) ==
            [ok |-> TRUE,
             fat |-> IF prev_cluster # None
                     THEN WriteFat(b1, ft, prev_cluster[1], Data(new))
                     ELSE b1,
             cluster |-> new]
        Found(new_cluster) ==
            IF new_cluster = None THEN [ok |-> FALSE, fat |-> b, cluster |-> 0]
            ELSE Linked(WriteFat(b, ft, new_cluster[1], EndOfChain), new_cluster[1])
    IN Found(FindFreeCluster(b, ft, 2))

\* get_next_cluster on the bytes of the FAT: [ok, next]
GetNextCluster(b, ft, cluster) ==
    IF ~CanGet(b, ft, cluster) THEN [ok |-> FALSE, next |-> None]
    ELSE LET val == ReadFat(b, ft, cluster)
         IN [ok |-> TRUE, next |-> IF val.tag = "Data" THEN Some(val.n) ELSE None]

\* the item Some(Err(_)) of next(); Some(Ok(n)) is Some(n)
ErrItem == Some(0 - 1)

\* ClusterIterator::new: the fields of the iterator
IterNew(cluster) == [cluster |-> Some(cluster), err |-> FALSE]

\* a next() that yields the iterator's cluster and then advances
IterNextYieldsCurrent(b, ft, it) ==
    IF it.err \/ it.cluster = None THEN [it |-> it, item |-> None]
    ELSE LET r == GetNextCluster(b, ft, it.cluster[1])
         IN IF ~r.ok THEN [it |-> [it EXCEPT !.err = TRUE], item |-> ErrItem]
            ELSE [it |-> [it EXCEPT !.cluster = r.next], item |-> it.cluster]

\* Iterator::next of ClusterIterator: the iterator afterwards and the item,
\* None, Some(n) for Some(Ok(n)) or ErrItem
IterNext(b, ft, it) ==
    IF it.err THEN [it |-> it, item |-> None]
    ELSE IF it.cluster = None THEN [it |-> it, item |-> None]
    ELSE LET r == GetNextCluster(b, ft, it.cluster[1])
         IN IF ~r.ok THEN [it |-> [it EXCEPT !.err = TRUE], item |-> ErrItem]
            ELSE [it |-> [it EXCEPT !.cluster = r.next], item |-> r.next]

\* the items of k calls of next()
RECURSIVE IterItems(_, _, _, _)
IterItems(b, ft, it, k) ==
    IF k = 0 THEN <<>>
    ELSE LET r == IterNext(b, ft, it)
         IN <<r.item>> \o IterItems(b, ft, r.it, k - 1)

-----------------------------------------------------------------------------
(* Directory records: dir_entry.rs *)

ATTR_VOLUME_ID == 8
ATTR_DIRECTORY == 16
ATTR_LFN == 15

ZeroRec == [name |-> [i \in 1..11 |-> 0], attrs |-> 0, hi |-> 0, lo |-> 0, size |-> 0]

\* the fields that 32 bytes of file data, all equal to b, decode to
DataRec(b) ==
    [name |-> [i \in 1..11 |-> b], attrs |-> b,
     hi |-> b * 257, lo |-> b * 257, size |-> b * 16843009]

HasBit(attrs, bit) == (attrs \div bit) % 2 = 1

\* DirFileEntryData::new: every other field is Default (zero)
NewFileEntryData(name, attrs) ==
    [name |-> name, attrs |-> attrs, hi |-> 0, lo |-> 0, size |-> 0]

first_cluster(data, ft) ==
    LET first_cluster_hi == IF ft = "Fat32" THEN data.hi ELSE 0
        n == first_cluster_hi * 65536 + data.lo
    IN IF n = 0 THEN None ELSE Some(n)

set_first_cluster(data, cluster, ft) ==
    LET n == IF cluster = None THEN 0 ELSE cluster[1]
    IN [data EXCEPT !.hi = IF ft = "Fat32" THEN n \div 65536 ELSE @,
                    !.lo = n % 65536]

is_dir(data) == HasBit(data.attrs, ATTR_DIRECTORY)
is_file(data) == ~is_dir(data)
size(data) == IF is_file(data) THEN Some(data.size) ELSE None
is_volume(data) == HasBit(data.attrs, ATTR_VOLUME_ID)

\* DirEntryData::is_free / is_end / set_free: byte 0 is name[0] of a regular
\* record and order of an LFN record
is_free(data) == data.name[1] = DIR_ENTRY_FREE_FLAG
is_end(data) == data.name[1] = 0
set_free(data) == [data EXCEPT !.name[1] = DIR_ENTRY_FREE_FLAG]

\* DirEntryData::deserialize of one stored record: from_bits_truncate keeps
\* the six defined attribute bits; attrs & LFN == LFN selects the LFN shape
deserialize_rec(stored) == [stored EXCEPT !.attrs = @ % 64]
is_lfn(data) == data.attrs % 16 = ATTR_LFN

\* DirFileEntryData::serialize / DirLfnEntryData::serialize: the fields as stored
serialize_rec(data) == data

\* ShortName::new followed by to_str: the decoded 8.3 name
PartLen(raw, from, max) ==
    LET sp == {i \in 0..(max - 1) : raw[from + i] = 32}
    IN IF sp = {} THEN max ELSE CHOOSE i \in sp : \A j \in sp : i <= j

strip_non_ascii(s) == [i \in 1..Len(s) |-> IF s[i] >= 128 THEN 63 ELSE s[i]]

ShortName(raw_name) ==
    LET name_len == PartLen(raw_name, 1, 8)
        ext_len == PartLen(raw_name, 9, 3)
        base == [i \in 1..name_len |-> raw_name[i]]
        ext == [i \in 1..ext_len |-> raw_name[8 + i]]
    IN strip_non_ascii(IF ext_len > 0 THEN base \o <<46>> \o ext ELSE base)

ToLower(c) == IF c >= 65 /\ c <= 90 THEN c + 32 ELSE c
ToUpper(c) == IF c >= 97 /\ c <= 122 THEN c - 32 ELSE c

eq_ignore_ascii_case(a, b) ==
    /\ Len(a) = Len(b)
    /\ \A i \in 1..Len(a) : ToLower(a[i]) = ToLower(b[i])

\* The 32 bytes of a record.  A DirFileEntryData is a record of its twelve
\* fields (hi and lo are first_cluster_hi and first_cluster_lo), a
\* DirLfnEntryData one of its eight; bytes is a sequence, bytes[1] the first.

\* write_u16 / write_u32: the n bytes of val, little-endian
le_bytes(val, n) == [i \in 1..n |-> (val \div (256 ^ (i - 1))) % 256]

\* write_u16 of every element of an array of u16
le_u16s(a) ==
    [i \in 1..(2 * Len(a)) |->
        IF i % 2 = 1 THEN a[(i + 1) \div 2] % 256 ELSE a[i \div 2] \div 256]

\* read_u16_into: count u16 from bytes[o], bytes[o + 1], ...
read_u16_into(bytes, o, count) == [i \in 1..count |-> read_le(bytes, o + 2 * (i - 1), 2)]

\* a serialize that writes first_cluster_lo where first_cluster_hi belongs and
\* first_cluster_hi where first_cluster_lo belongs
DirFileEntryData_serialize_swapped(data) ==
    data.name \o <<data.attrs, data.reserved_0, data.create_time_0>>
    \o le_bytes(data.create_time_1, 2) \o le_bytes(data.create_date, 2)
    \o le_bytes(data.access_date, 2) \o le_bytes(data.lo, 2)
    \o le_bytes(data.modify_time, 2) \o le_bytes(data.modify_date, 2)
    \o le_bytes(data.hi, 2) \o le_bytes(data.size, 4)

DirFileEntryData_serialize(data) ==
    data.name \o <<data.attrs, data.reserved_0, data.create_time_0>>
    \o le_bytes(data.create_time_1, 2) \o le_bytes(data.create_date, 2)
    \o le_bytes(data.access_date, 2) \o le_bytes(data.hi, 2)
    \o le_bytes(data.modify_time, 2) \o le_bytes(data.modify_date, 2)
    \o le_bytes(data.lo, 2) \o le_bytes(data.size, 4)

DirLfnEntryData_serialize(data) ==
    <<data.order>> \o le_u16s(data.name_0)
    \o <<data.attrs, data.entry_type, data.checksum>>
    \o le_u16s(data.name_1) \o le_bytes(data.reserved_0, 2) \o le_u16s(data.name_2)

\* DirEntryData::serialize of [kind, data]
DirEntryData_serialize(entry) ==
    IF entry.kind = "File" THEN DirFileEntryData_serialize(entry.data)
    ELSE DirLfnEntryData_serialize(entry.data)

\* DirEntryData::deserialize of 32 bytes: [kind, data]
DirEntryData_deserialize(bytes) ==
    LET name == SubSeq(bytes, 1, 11)
        attrs == bytes[12] % 64
    IN IF attrs % 16 = ATTR_LFN
       THEN [kind |-> "Lfn",
             data |-> [order |-> name[1], name_0 |-> read_u16_into(name, 2, 5),
                       attrs |-> attrs, entry_type |-> bytes[13], checksum |-> bytes[14],
                       name_1 |-> read_u16_into(bytes, 15, 6),
                       reserved_0 |-> read_le(bytes, 27, 2),
                       name_2 |-> read_u16_into(bytes, 29, 2)]]
       ELSE [kind |-> "File",
             data |-> [name |-> name, attrs |-> attrs, reserved_0 |-> bytes[13],
                       create_time_0 |-> bytes[14],
                       create_time_1 |-> read_le(bytes, 15, 2),
                       create_date |-> read_le(bytes, 17, 2),
                       access_date |-> read_le(bytes, 19, 2),
                       hi |-> read_le(bytes, 21, 2),
                       modify_time |-> read_le(bytes, 23, 2),
                       modify_date |-> read_le(bytes, 25, 2),
                       lo |-> read_le(bytes, 27, 2),
                       size |-> read_le(bytes, 29, 4)]]

-----------------------------------------------------------------------------
(* Names: dir.rs *)

\* copy_short_name_part: the bytes written over dst (a sequence of spaces)
ShortChar(c) ==
    IF c \in {46, 32, 43, 44, 59, 61, 91, 93} THEN 63
    ELSE IF c < 128 THEN ToUpper(c)
    ELSE 63

copy_short_name_part(dst_len, src) ==
    [j \in 1..dst_len |-> IF j <= Len(src) THEN ShortChar(src[j]) ELSE 32]

LastDot(name) ==
    LET dots == {i \in 1..Len(name) : name[i] = 46}
    IN IF dots = {} THEN 0 ELSE CHOOSE i \in dots : \A j \in dots : j <= i

\* a generate_short_name that splits the name at its first '.'
generate_short_name_first_dot(name) ==
    LET dots == {i \in 1..Len(name) : name[i] = 46}
        index == IF dots = {} THEN 0 ELSE CHOOSE i \in dots : \A j \in dots : i <= j
    IN IF index > 0
       THEN copy_short_name_part(8, SubSeq(name, 1, index - 1))
            \o copy_short_name_part(3, SubSeq(name, index + 1, Len(name)))
       ELSE copy_short_name_part(8, name) \o copy_short_name_part(3, <<>>)

generate_short_name(name) ==
    LET index == LastDot(name)
    IN IF index > 0
       THEN copy_short_name_part(8, SubSeq(name, 1, index - 1))
            \o copy_short_name_part(3, SubSeq(name, index + 1, Len(name)))
       ELSE copy_short_name_part(8, name) \o copy_short_name_part(3, <<>>)

Utf8Len(c) == IF c < 128 THEN 1 ELSE IF c < 2048 THEN 2 ELSE 3

\* str::len: the number of bytes of the characters name[from..to]
RECURSIVE ByteLenOf(_, _, _)
ByteLenOf(name, from, to) ==
    IF from > to THEN 0
    ELSE IF from = to THEN Utf8Len(name[from])
    ELSE ByteLenOf(name, from, (from + to) \div 2)
         + ByteLenOf(name, (from + to) \div 2 + 1, to)

ByteLen(name) == ByteLenOf(name, 1, Len(name))

LongNameChar(c) ==
    \/ c >= 97 /\ c <= 122
    \/ c >= 65 /\ c <= 90
    \/ c >= 48 /\ c <= 57
    \/ c >= 128 /\ c <= 65535
    \/ c \in {36, 37, 39, 45, 95, 64, 126, 96, 33, 40, 41, 123, 125,
              46, 32, 43, 44, 59, 61, 91, 93}

\* validate_long_name: TRUE for Ok(()), FALSE for Err(InvalidInput)
validate_long_name(name) ==
    /\ ByteLen(name) # 0
    /\ ByteLen(name) <= 255
    /\ \A i \in 1..Len(name) : LongNameChar(name[i])

\* split_path: trim '/' at both ends, split at the first '/'
RECURSIVE TrimStart(_)
TrimStart(p) == IF p # <<>> /\ Head(p) = 47 THEN TrimStart(Tail(p)) ELSE p

RECURSIVE TrimEnd(_)
TrimEnd(p) ==
    IF p # <<>> /\ p[Len(p)] = 47 THEN TrimEnd(SubSeq(p, 1, Len(p) - 1)) ELSE p

split_path(path) ==
    LET At(t, i) ==
            IF i = 0 THEN [comp |-> t, rest |-> None]
            ELSE [comp |-> SubSeq(t, 1, i - 1), rest |-> Some(SubSeq(t, i + 1, Len(t)))]
        Split(t, sl) == At(t, IF sl = {} THEN 0 ELSE CHOOSE k \in sl : \A j \in sl : k <= j)
        Trimmed(t) == Split(t, {i \in 1..Len(t) : t[i] = 47})
    IN Trimmed(TrimEnd(TrimStart(path)))

-----------------------------------------------------------------------------
(* Cluster-chain stream: file.rs.  A world w is [disk, fat]. *)

\* DirEntryEditor::new
NewEditor(data, pos) == [data |-> data, pos |-> pos, dirty |-> FALSE]

\* File::new
NewFile(first, entry) ==
    [kind |-> "File", first_cluster |-> first, current_cluster |-> None,
     offset |-> 0, entry |-> entry]

\* the size the stream knows: e.inner().size() of its editor, if any
FileSize(f) == IF f.entry = None THEN None ELSE size(f.entry[1].data)

\* DirEntryEditor::set_size
EditorSetSize(e, sz) ==
    IF size(e.data) # None /\ size(e.data)[1] # sz
    THEN [e EXCEPT !.data.size = sz, !.dirty = TRUE]
    ELSE e

\* DirEntryEditor::set_first_cluster
EditorSetFirstCluster(e, cluster, ft) ==
    IF cluster # first_cluster(e.data, ft)
    THEN [e EXCEPT !.data = set_first_cluster(@, cluster, ft), !.dirty = TRUE]
    ELSE e

\* File::update_size: reset_modified marks the editor dirty
update_size(f) ==
    LET Grown(e1, s) ==
            IF s # None /\ f.offset > s[1] THEN EditorSetSize(e1, f.offset) ELSE e1
    IN IF f.entry = None THEN f
       ELSE [f EXCEPT !.entry = Some(Grown([f.entry[1] EXCEPT !.dirty = TRUE],
                                           size(f.entry[1].data)))]

\* File::abs_pos
abs_pos(f) ==
    IF f.kind = "Root" THEN Some(f.offset)
    ELSE IF f.current_cluster = None THEN None
    ELSE Some(offset_from_cluster(f.current_cluster[1]) + (f.offset % cluster_size))

\* the cluster a read or write at a cluster boundary moves to
NextClusterOf(w, f) ==
    IF f.current_cluster = None THEN f.first_cluster
    ELSE get_next_cluster(w.fat, fat_type, f.current_cluster[1])

\* File::read: [f, n, pos] with pos the byte position the n bytes came from
FileRead(w, f, len) ==
    LET Go(current_cluster_opt, offset_in_cluster, read_size) ==
            IF current_cluster_opt = None \/ read_size = 0
            THEN [f |-> f, n |-> 0, pos |-> 0]
            ELSE [f |-> [f EXCEPT !.offset = @ + read_size,
                                  !.current_cluster = current_cluster_opt],
                  n |-> read_size,
                  pos |-> offset_from_cluster(current_cluster_opt[1]) + offset_in_cluster]
        Sized(current_cluster_opt, offset_in_cluster, bytes_left_in_cluster, s) ==
            Go(current_cluster_opt, offset_in_cluster,
               Min(Min(len, bytes_left_in_cluster),
                   IF s = None THEN bytes_left_in_cluster ELSE s[1] - f.offset))
    IN Sized(IF f.offset % cluster_size = 0 THEN NextClusterOf(w, f) ELSE f.current_cluster,
             f.offset % cluster_size, cluster_size - (f.offset % cluster_size), FileSize(f))

\* the slots of one cluster set to zero (the new directory cluster of File::write)
ZeroCluster(d, cluster) ==
    LET base == offset_from_cluster(cluster) \div DIR_ENTRY_SIZE
    IN [a \in DOMAIN d |->
          IF a >= base /\ a < base + SlotsPerCluster THEN ZeroRec ELSE d[a]]

\* `count` slots from byte position pos set to rec
FillSlots(d, pos, count, rec) ==
    LET base == pos \div DIR_ENTRY_SIZE
    IN [a \in DOMAIN d |-> IF a >= base /\ a < base + count THEN rec ELSE d[a]]

\* File::write once the cluster to write into is known: `need` says that it
\* was allocated by this call, fat1 is the FAT after that
WriteInto(w, f, write_size, rec, current_cluster, need, fat1) ==
    LET Stored(f1, disk1) ==
            [w |-> [disk |-> FillSlots(disk1,
                                       offset_from_cluster(current_cluster)
                                           + (f.offset % cluster_size),
                                       write_size \div DIR_ENTRY_SIZE, rec),
                    fat |-> fat1],
             f |-> update_size([f1 EXCEPT !.offset = @ + write_size,
                                          !.current_cluster = Some(current_cluster)]),
             n |-> write_size, ok |-> TRUE]
        \* zero new directory cluster
        Zeroed(f1) ==
            Stored(f1, IF need /\ (f1.entry = None \/ size(f1.entry[1].data) = None)
                       THEN ZeroCluster(w.disk, current_cluster)
                       ELSE w.disk)
    \* File::set_first_cluster
    IN Zeroed(IF need /\ f.first_cluster = None
              THEN [f EXCEPT !.first_cluster = Some(current_cluster),
                             !.entry = IF @ = None THEN None
                                       ELSE Some(EditorSetFirstCluster(
                                                @[1], Some(current_cluster), fat_type))]
              ELSE f)

\* a write() that takes the whole buffer, whatever is left of the cluster
FileWriteSpanning(w, f, len, rec) ==
    WriteInto(w, f, len, rec,
              IF f.current_cluster # None THEN f.current_cluster[1]
              ELSE IF f.first_cluster # None THEN f.first_cluster[1] ELSE 2,
              FALSE, w.fat)

\* File::write of len bytes, each slot of which decodes to rec: [w, f, n, ok]
FileWrite(w, f, len, rec) ==
    LET Alloc(a, write_size) ==
            IF ~a.ok THEN [w |-> w, f |-> f, n |-> 0, ok |-> FALSE]
            ELSE WriteInto(w, f, write_size, rec, a.cluster, TRUE, a.fat)
        Go(write_size, next_cluster) ==
            IF write_size = 0 THEN [w |-> w, f |-> f, n |-> 0, ok |-> TRUE]
            ELSE IF f.offset % cluster_size # 0
                 THEN WriteInto(w, f, write_size, rec, f.current_cluster[1], FALSE, w.fat)
            ELSE IF next_cluster # None
                 THEN WriteInto(w, f, write_size, rec, next_cluster[1], FALSE, w.fat)
            ELSE Alloc(alloc_cluster(w.fat, fat_type, f.current_cluster), write_size)
    IN Go(Min(len, cluster_size - (f.offset % cluster_size)), NextClusterOf(w, f))

\* the loop of File::seek: i counts the steps taken from first_cluster
RECURSIVE SeekWalk(_, _, _, _)
SeekWalk(w, cluster, i, cluster_count) ==
    IF i >= cluster_count THEN [cluster |-> cluster, ended |-> FALSE, i |-> i]
    ELSE LET nxt == get_next_cluster(w.fat, fat_type, cluster)
         IN IF nxt = None THEN [cluster |-> cluster, ended |-> TRUE, i |-> i]
            ELSE SeekWalk(w, nxt[1], i + 1, cluster_count)

\* a seek() that does not clamp the position to the size
FileSeekUnclamped(w, f, pos) ==
    [f |-> [f EXCEPT !.offset = IF pos < 0 THEN @ ELSE pos,
                     !.current_cluster = IF pos = 0 THEN None ELSE f.first_cluster],
     ok |-> pos >= 0]

\* File::seek to the raw position pos the SeekFrom gives: [f, ok]
FileSeek(w, f, pos) ==
    LET Walked(walk, new_pos) ==
            [f |-> [f EXCEPT !.offset = IF walk.ended THEN (walk.i + 1) * cluster_size
                                        ELSE new_pos,
                             !.current_cluster = Some(walk.cluster)],
             ok |-> TRUE]
        Go(new_pos, cluster_count, old_cluster_count) ==
            IF new_pos = f.offset THEN [f |-> f, ok |-> TRUE]
            ELSE IF new_pos = 0
                 THEN [f |-> [f EXCEPT !.offset = 0, !.current_cluster = None], ok |-> TRUE]
            ELSE IF cluster_count = old_cluster_count
                 THEN [f |-> [f EXCEPT !.offset = new_pos], ok |-> TRUE]
            ELSE IF f.first_cluster = None
                 THEN [f |-> [f EXCEPT !.offset = 0, !.current_cluster = None], ok |-> TRUE]
            ELSE Walked(SeekWalk(w, f.first_cluster[1], 0, cluster_count), new_pos)
        Clamped(new_pos) ==
            Go(new_pos, (new_pos + cluster_size - 1) \div cluster_size - 1,
               (f.offset + cluster_size - 1) \div cluster_size - 1)
        Sized(s) == Clamped(IF s # None /\ pos > s[1] THEN s[1] ELSE pos)
    IN IF pos < 0 THEN [f |-> f, ok |-> FALSE]
       ELSE Sized(FileSize(f))

\* a truncate() that keeps first_cluster when it cuts at offset 0
FileTruncateKeepsFirst(w, f) ==
    [w |-> [w EXCEPT !.fat = IF f.offset > 0
                              THEN IterTruncate(@, fat_type, f.current_cluster[1])
                              ELSE IterFree(@, fat_type, f.first_cluster)],
     f |-> [f EXCEPT !.entry = IF @ = None THEN None
                               ELSE Some(EditorSetSize(@[1], f.offset))]]

\* File::truncate: [w, f]
FileTruncate(w, f) ==
    LET Cut(f1) ==
            IF f.offset > 0
            THEN [w |-> [w EXCEPT !.fat = IterTruncate(@, fat_type, f.current_cluster[1])],
                  f |-> f1]
            ELSE [w |-> [w EXCEPT !.fat = IterFree(@, fat_type, f.first_cluster)],
                  f |-> [f1 EXCEPT !.first_cluster = None]]
        Sized(e) ==
            Some(IF f.offset = 0 THEN EditorSetFirstCluster(e, None, fat_type) ELSE e)
    IN Cut([f EXCEPT !.entry = IF @ = None THEN None
                               ELSE Sized(EditorSetSize(@[1], f.offset))])

\* File::flush_dir_entry with DirEntryEditor::flush and write: [w, f]
FileFlush(w, f) ==
    IF f.entry # None /\ f.entry[1].dirty
    THEN [w |-> [w EXCEPT !.disk[f.entry[1].pos \div DIR_ENTRY_SIZE] =
                              serialize_rec(f.entry[1].data)],
          f |-> [f EXCEPT !.entry = Some([@[1] EXCEPT !.dirty = FALSE])]]
    ELSE [w |-> w, f |-> f]

-----------------------------------------------------------------------------
(* Directory streams: DirRawStream of dir.rs over File or the root DiskSlice *)

\* FileSystem::root_dir: the fixed region on FAT12/16, a chain on FAT32
root_dir ==
    IF fat_type = "Fat32" THEN NewFile(Some(RootCluster), None)
    ELSE [kind |-> "Root", first_cluster |-> None, current_cluster |-> None,
          offset |-> 0, entry |-> None]

\* DiskSlice::read / write / seek of the root region, bounded by its size
SliceRead(s, len) ==
    LET n == Min(len, RootSize - s.offset)
    IN [f |-> [s EXCEPT !.offset = @ + n], n |-> n, pos |-> s.offset]

SliceWrite(w, s, len, rec) ==
    LET n == Min(len, RootSize - s.offset)
    IN IF n = 0 THEN [w |-> w, f |-> s, n |-> 0, ok |-> TRUE]
       ELSE [w |-> [w EXCEPT !.disk = FillSlots(@, s.offset, n \div DIR_ENTRY_SIZE, rec)],
             f |-> [s EXCEPT !.offset = @ + n], n |-> n, ok |-> TRUE]

SliceSeek(s, pos) ==
    IF pos < 0 \/ pos > RootSize THEN [f |-> s, ok |-> FALSE]
    ELSE [f |-> [s EXCEPT !.offset = pos], ok |-> TRUE]

StreamRead(w, s, len) == IF s.kind = "Root" THEN SliceRead(s, len) ELSE FileRead(w, s, len)
StreamSeek(w, s, pos) == IF s.kind = "Root" THEN SliceSeek(s, pos) ELSE FileSeek(w, s, pos)

\* serialize of one record into the stream (write_all of its 32 bytes): a
\* write of 0 bytes makes write_all fail
StreamWriteRec(w, s, rec) ==
    LET Wrote(r) == [w |-> r.w, s |-> r.f, ok |-> r.ok /\ r.n = DIR_ENTRY_SIZE]
    IN Wrote(IF s.kind = "Root" THEN SliceWrite(w, s, DIR_ENTRY_SIZE, rec)
             ELSE FileWrite(w, s, DIR_ENTRY_SIZE, rec))

\* Drop for File: flush; the root DiskSlice has nothing to flush
StreamDrop(w, s) == IF s.kind = "Root" THEN w ELSE FileFlush(w, s).w

\* a deserialize that takes the last record of the stream for its end
deserialize_short(w, s) ==
    LET Got(r) ==
            IF r.n = 0 \/ StreamRead(w, r.f, DIR_ENTRY_SIZE).n = 0
            THEN [s |-> s, rec |-> ZeroRec]
            ELSE [s |-> r.f, rec |-> deserialize_rec(w.disk[r.pos \div DIR_ENTRY_SIZE])]
    IN Got(StreamRead(w, s, DIR_ENTRY_SIZE))

\* DirEntryData::deserialize from a stream: at the end of the stream the
\* synthetic all-zero record, the stream left where it was
deserialize(w, s) ==
    LET Got(r) ==
            IF r.n = 0 THEN [s |-> s, rec |-> ZeroRec]
            ELSE [s |-> r.f, rec |-> deserialize_rec(w.disk[r.pos \div DIR_ENTRY_SIZE])]
    IN Got(StreamRead(w, s, DIR_ENTRY_SIZE))

-----------------------------------------------------------------------------
(* Directory engine: dir.rs.  A Dir is its stream. *)

NoEntry == [data |-> ZeroRec, short_name |-> <<>>, entry_pos |-> 0,
            offset_range |-> <<0, 0>>]

file_name(e) == e.short_name

\* DirEntry::to_file, to_dir (callers check is_dir first: the asserts)
to_file(e) ==
    NewFile(first_cluster(e.data, fat_type), Some(NewEditor(e.data, e.entry_pos)))

to_dir(e) ==
    IF first_cluster(e.data, fat_type) # None
    THEN NewFile(first_cluster(e.data, fat_type), Some(NewEditor(e.data, e.entry_pos)))
    ELSE root_dir

\* DirIter::read_dir_entry: [s, found, e]
RECURSIVE read_dir_entry_loop(_, _, _, _)
read_dir_entry_loop(w, s, offset, begin_offset) ==
    LET Got(r, off) ==
            IF ~is_lfn(r.rec)
            THEN IF is_end(r.rec) THEN [s |-> r.s, found |-> FALSE, e |-> NoEntry]
                 ELSE IF is_free(r.rec) \/ is_volume(r.rec)
                      THEN read_dir_entry_loop(w, r.s, off, off)
                 ELSE [s |-> r.s, found |-> TRUE,
                       e |-> [data |-> r.rec, short_name |-> ShortName(r.rec.name),
                              entry_pos |-> abs_pos(r.s)[1] - DIR_ENTRY_SIZE,
                              offset_range |-> <<begin_offset, off>>]]
            ELSE IF is_free(r.rec) THEN read_dir_entry_loop(w, r.s, off, off)
                 ELSE read_dir_entry_loop(w, r.s, off, begin_offset)
    IN Got(deserialize(w, s), offset + DIR_ENTRY_SIZE)

read_dir_entry(w, s) == read_dir_entry_loop(w, s, s.offset, s.offset)

\* Dir::iter run to its end: the logical entries in order
RECURSIVE DirIterFrom(_, _)
DirIterFrom(w, s) ==
    LET Got(r) == IF r.found THEN <<r.e>> \o DirIterFrom(w, r.s) ELSE <<>>
    IN Got(read_dir_entry(w, s))

iter(w, dir) == DirIterFrom(w, dir)

\* a find_entry that returns the last entry whose name matches
LastMatch(es, name) ==
    LET Hit(hits) ==
            IF hits = {} THEN [found |-> FALSE, e |-> NoEntry]
            ELSE [found |-> TRUE, e |-> es[CHOOSE i \in hits : \A j \in hits : i >= j]]
    IN Hit({i \in 1..Len(es) : eq_ignore_ascii_case(file_name(es[i]), name)})

\* the first entry of es whose name matches: [found, e]
FirstMatch(es, name) ==
    LET Hit(hits) ==
            IF hits = {} THEN [found |-> FALSE, e |-> NoEntry]
            ELSE [found |-> TRUE, e |-> es[CHOOSE i \in hits : \A j \in hits : i <= j]]
    IN Hit({i \in 1..Len(es) : eq_ignore_ascii_case(file_name(es[i]), name)})

\* Dir::find_entry: [found, e]; not found is Err(NotFound)
find_entry(w, dir, name) == FirstMatch(iter(w, dir), name)

\* an is_empty() that does not look at the entries
is_empty_unchecked(w, dir) == TRUE

\* Dir::is_empty
is_empty(w, dir) ==
    LET Only(es) ==
            \A i \in 1..Len(es) : file_name(es[i]) = <<46>> \/ file_name(es[i]) = <<46, 46>>
    IN Only(iter(w, dir))

\* Dir::find_free_entries: the stream positioned at the first usable slot
RECURSIVE FindFreeLoop(_, _, _, _, _, _)
FindFreeLoop(w, s, num_entries, first_free, num_free, i) ==
    LET Got(r, ff) ==
            IF is_end(r.rec) THEN [s |-> r.s, first_free |-> ff]
            ELSE IF is_free(r.rec)
                 THEN IF num_free + 1 = num_entries THEN [s |-> r.s, first_free |-> ff]
                      ELSE FindFreeLoop(w, r.s, num_entries, ff, num_free + 1, i + 1)
            ELSE FindFreeLoop(w, r.s, num_entries, first_free, 0, i + 1)
    IN Got(deserialize(w, s), IF num_free = 0 THEN i ELSE first_free)

\* a find_free_entries that settles for the first free record
find_free_entries_first(w, dir, num_entries) ==
    LET Found(r) == StreamSeek(w, r.s, r.first_free * DIR_ENTRY_SIZE).f
    IN Found(FindFreeLoop(w, dir, 1, 0, 0, 0))

find_free_entries(w, dir, num_entries) ==
    LET Found(r) == StreamSeek(w, r.s, r.first_free * DIR_ENTRY_SIZE).f
    IN Found(FindFreeLoop(w, dir, num_entries, 0, 0, 0))

\* Dir::create_entry once the record is written: wr is the result of the write
EntryWritten(wr, raw_entry, start_pos) ==
    IF ~wr.ok
    THEN [w |-> StreamDrop(wr.w, wr.s), res |-> "Err", e |-> NoEntry]
    ELSE [w |-> StreamDrop(wr.w, wr.s), res |-> "Ok",
          e |-> [data |-> raw_entry, short_name |-> ShortName(raw_entry.name),
                 entry_pos |-> abs_pos(wr.s)[1] - DIR_ENTRY_SIZE,
                 offset_range |-> <<start_pos, wr.s.offset>>]]

\* Dir::create_entry (create_lfn_entries writes no LFN records): [w, res, e]
create_entry(w, dir, name, attrs, cluster) ==
    LET Put(stream, raw_entry) ==
            EntryWritten(StreamWriteRec(w, stream, serialize_rec(raw_entry)),
                         raw_entry, stream.offset)
    IN IF ~validate_long_name(name) THEN [w |-> w, res |-> "InvalidInput", e |-> NoEntry]
       ELSE Put(find_free_entries(w, dir, 1),
                set_first_cluster(NewFileEntryData(generate_short_name(name), attrs),
                                  cluster, fat_type))

\* Dir::create_file: [w, res, file]; "Panic" is the assert of to_dir / to_file
RECURSIVE create_file(_, _, _)
create_file(w, dir, path) ==
    LET Made(c) ==
            [w |-> c.w, res |-> c.res,
             file |-> IF c.res = "Ok" THEN Some(to_file(c.e)) ELSE None]
        Go(sp, r) ==
            IF sp.rest # None
            THEN IF ~r.found THEN [w |-> w, res |-> "NotFound", file |-> None]
                 ELSE IF ~is_dir(r.e.data) THEN [w |-> w, res |-> "Panic", file |-> None]
                 ELSE create_file(w, to_dir(r.e), sp.rest[1])
            ELSE IF ~r.found THEN Made(create_entry(w, dir, sp.comp, 0, None))
            ELSE IF is_dir(r.e.data) THEN [w |-> w, res |-> "Panic", file |-> None]
            ELSE [w |-> w, res |-> "Ok", file |-> Some(to_file(r.e))]
    IN Go(split_path(path), find_entry(w, dir, split_path(path).comp))

\* Dir::open_file: [res, file]
RECURSIVE open_file(_, _, _)
open_file(w, dir, path) ==
    LET Go(sp, r) ==
            IF ~r.found THEN [res |-> "NotFound", file |-> None]
            ELSE IF sp.rest # None
                 THEN IF ~is_dir(r.e.data) THEN [res |-> "Panic", file |-> None]
                      ELSE open_file(w, to_dir(r.e), sp.rest[1])
            ELSE IF is_dir(r.e.data) THEN [res |-> "Panic", file |-> None]
            ELSE [res |-> "Ok", file |-> Some(to_file(r.e))]
    IN Go(split_path(path), find_entry(w, dir, split_path(path).comp))

\* Dir::open_dir: [res, dir]
RECURSIVE open_dir(_, _, _)
open_dir(w, dir, path) ==
    LET Go(sp, r) ==
            IF ~r.found THEN [res |-> "NotFound", dir |-> None]
            ELSE IF ~is_dir(r.e.data) THEN [res |-> "Panic", dir |-> None]
            ELSE IF sp.rest # None THEN open_dir(w, to_dir(r.e), sp.rest[1])
            ELSE [res |-> "Ok", dir |-> Some(to_dir(r.e))]
    IN Go(split_path(path), find_entry(w, dir, split_path(path).comp))

\* Dir::create_dir once the cluster is allocated: the entry in the parent,
\* then the special entries "." and ".." in the new directory
NewDir(w1, dir, name, cluster) ==
    LET Third(c3, newdir) ==
            IF c3.res # "Ok" THEN [w |-> c3.w, res |-> c3.res, dir |-> None]
            ELSE [w |-> c3.w, res |-> "Ok", dir |-> Some(newdir)]
        Second(c2, newdir) ==
            IF c2.res # "Ok" THEN [w |-> c2.w, res |-> c2.res, dir |-> None]
            ELSE Third(create_entry(c2.w, newdir, <<46, 46>>, ATTR_DIRECTORY,
                                    dir.first_cluster), newdir)
        First(c1) ==
            IF c1.res # "Ok" THEN [w |-> c1.w, res |-> c1.res, dir |-> None]
            ELSE Second(create_entry(c1.w, to_dir(c1.e), <<46>>, ATTR_DIRECTORY,
                                     first_cluster(c1.e.data, fat_type)), to_dir(c1.e))
    IN First(create_entry(w1, dir, name, ATTR_DIRECTORY, Some(cluster)))

\* Dir::create_dir: [w, res, dir]
RECURSIVE create_dir(_, _, _)
create_dir(w, dir, path) ==
    LET Alloc(a, name) ==
            IF ~a.ok THEN [w |-> w, res |-> "Err", dir |-> None]
            ELSE NewDir([w EXCEPT !.fat = a.fat], dir, name, a.cluster)
        Go(sp, r) ==
            IF sp.rest # None
            THEN IF ~r.found THEN [w |-> w, res |-> "NotFound", dir |-> None]
                 ELSE IF ~is_dir(r.e.data) THEN [w |-> w, res |-> "Panic", dir |-> None]
                 ELSE create_dir(w, to_dir(r.e), sp.rest[1])
            ELSE IF r.found
                 THEN IF is_dir(r.e.data)
                      THEN [w |-> w, res |-> "Ok", dir |-> Some(to_dir(r.e))]
                      ELSE [w |-> w, res |-> "Panic", dir |-> None]
            ELSE Alloc(alloc_cluster(w.fat, fat_type, None), sp.comp)
    IN Go(split_path(path), find_entry(w, dir, split_path(path).comp))

\* the loop of Dir::remove that marks num records free: [w, s, ok]
RECURSIVE RemoveLoop(_, _, _)
RemoveLoop(w, s, num) ==
    LET Wrote(wr) ==
            IF ~wr.ok THEN [w |-> wr.w, s |-> wr.s, ok |-> FALSE]
            ELSE RemoveLoop(wr.w, wr.s, num - 1)
        Back(sk, data) ==
            IF ~sk.ok THEN [w |-> w, s |-> sk.f, ok |-> FALSE]
            ELSE Wrote(StreamWriteRec(w, sk.f, serialize_rec(data)))
        Got(r) == Back(StreamSeek(w, r.s, r.s.offset - DIR_ENTRY_SIZE), set_free(r.rec))
    IN IF num = 0 THEN [w |-> w, s |-> s, ok |-> TRUE]
       ELSE Got(deserialize(w, s))

\* a remove() that leaves the target's chain allocated
RemoveKeepData(w, e) == w

\* Dir::remove, "free directory data": the target's chain is freed
RemoveFreeData(w, e) ==
    IF first_cluster(e.data, fat_type) # None
    THEN [w EXCEPT !.fat = IterFree(@, fat_type, first_cluster(e.data, fat_type))]
    ELSE w

\* a remove that marks only the regular record of e free
RemoveRecordsShortOnly(w1, dir, e) ==
    LET Done(lp) == [w |-> StreamDrop(lp.w, lp.s), res |-> IF lp.ok THEN "Ok" ELSE "Err"]
        At(sk) == Done(RemoveLoop(w1, sk.f, 1))
    IN At(StreamSeek(w1, dir, e.offset_range[2] - DIR_ENTRY_SIZE))

\* Dir::remove once the chain is freed (w1): the records of e are marked free
RemoveRecords(w1, dir, e) ==
    LET Done(lp) == [w |-> StreamDrop(lp.w, lp.s), res |-> IF lp.ok THEN "Ok" ELSE "Err"]
        At(sk) ==
            Done(RemoveLoop(w1, sk.f,
                            (e.offset_range[2] - e.offset_range[1]) \div DIR_ENTRY_SIZE))
    IN At(StreamSeek(w1, dir, e.offset_range[1]))

\* Dir::remove: [w, res]
RECURSIVE remove(_, _, _)
remove(w, dir, path) ==
    LET Go(sp, r) ==
            IF ~r.found THEN [w |-> w, res |-> "NotFound"]
            ELSE IF sp.rest # None
                 THEN IF ~is_dir(r.e.data) THEN [w |-> w, res |-> "Panic"]
                      ELSE remove(w, to_dir(r.e), sp.rest[1])
            ELSE IF is_dir(r.e.data) /\ ~is_empty(w, to_dir(r.e))
                 THEN [w |-> w, res |-> "NotFound"]
            ELSE RemoveRecords(RemoveFreeData(w, r.e), dir, r.e)
    IN Go(split_path(path), find_entry(w, dir, split_path(path).comp))

-----------------------------------------------------------------------------
(* Volumes at mount time *)

Slots == 0..(NumSlots - 1)
Clusters == 2..MaxCluster

SlotOf(cluster, i) == offset_from_cluster(cluster) \div DIR_ENTRY_SIZE + i

\* an 11-byte name field: base and extension padded with spaces
Name83(base, ext) ==
    [i \in 1..11 |-> IF i <= Len(base) THEN base[i]
                     ELSE IF i > 8 /\ i - 8 <= Len(ext) THEN ext[i - 8]
                     ELSE 32]

Rec(base, attrs, cluster, sz) ==
    [name |-> Name83(base, <<>>), attrs |-> attrs, hi |-> 0, lo |-> cluster, size |-> sz]

EmptyFat(ft) == [c \in 0..MaxCluster |-> IF c < 2 THEN EocRaw(ft) ELSE 0]
EmptyDisk == [a \in Slots |-> ZeroRec]

\* a freshly formatted volume: an empty root directory
FreshFat(ft) ==
    IF ft = "Fat32" THEN [EmptyFat(ft) EXCEPT ![RootCluster] = EocRaw(ft)] ELSE EmptyFat(ft)

\* a FAT12/16 volume another implementation has used: the root region holds the
\* directory D (cluster 2, with its "." and ".." records) and the file
\* F of two clusters (3 -> 4)
UsedFat16(ft) ==
    [EmptyFat(ft) EXCEPT ![2] = EocRaw(ft), ![3] = 4, ![4] = EocRaw(ft)]

UsedDisk16 ==
    [a \in Slots |->
        IF a = 0 THEN Rec(<<68>>, ATTR_DIRECTORY, 2, 0)
        ELSE IF a = 1 THEN Rec(<<70>>, 0, 3, 2 * cluster_size)
        ELSE IF a = SlotOf(2, 0) THEN Rec(<<46>>, ATTR_DIRECTORY, 2, 0)
        ELSE IF a = SlotOf(2, 1) THEN Rec(<<46, 46>>, ATTR_DIRECTORY, 0, 0)
        ELSE IF a >= SlotOf(3, 0) /\ a < SlotOf(5, 0) THEN DataRec(65)
        ELSE ZeroRec]

\* a FAT32 volume another implementation has used: the root directory is the
\* chain 2 -> 4 and holds the file F (cluster 3, one cluster of data) and the
\* empty files G, H, ...; its next record is the last one of cluster 4
UsedFat32 ==
    [EmptyFat("Fat32") EXCEPT ![2] = 4, ![3] = EocRaw("Fat32"), ![4] = EocRaw("Fat32")]

UsedDisk32 ==
    [a \in Slots |->
        IF a = SlotOf(2, 0) THEN Rec(<<70>>, 0, 3, cluster_size)
        ELSE IF a > SlotOf(2, 0) /\ a < SlotOf(3, 0)
             THEN Rec(<<70 + (a - SlotOf(2, 0))>>, 0, 0, 0)
        ELSE IF a >= SlotOf(3, 0) /\ a < SlotOf(4, 0) THEN DataRec(65)
        ELSE IF a >= SlotOf(4, 0) /\ a < SlotOf(4, SlotsPerCluster - 1)
             THEN Rec(<<70 + SlotsPerCluster + (a - SlotOf(4, 0))>>, 0, 0, 0)
        ELSE ZeroRec]

\* a FAT32 volume with a volume label: the root directory is the chain
\* 2 -> 3 -> 4 and holds, in this order, the label V, one long-name record, the
\* empty file L it belongs to, a record that marks the end of the directory
\* (first byte 0x00) and whose other bytes were left as they were, those of
\* a long-name record, and behind it the left-over record of a file Z
LabelFat32 ==
    [EmptyFat("Fat32") EXCEPT ![2] = 3, ![3] = 4, ![4] = EocRaw("Fat32")]

LabelDisk32 ==
    [a \in Slots |->
        IF a = SlotOf(2, 0) THEN Rec(<<86>>, ATTR_VOLUME_ID, 0, 0)
        ELSE IF a = SlotOf(2, 0) + 1 THEN Rec(<<65>>, ATTR_LFN, 0, 0)
        ELSE IF a = SlotOf(2, 0) + 2 THEN Rec(<<76>>, 0, 0, 0)
        ELSE IF a = SlotOf(2, 0) + 3 THEN Rec(<<0>>, ATTR_LFN, 0, 0)
        ELSE IF a = SlotOf(2, 0) + 4 THEN Rec(<<90>>, 0, 0, 0)
        ELSE ZeroRec]

Volumes ==
    {[ft |-> ft, fat |-> FreshFat(ft), disk |-> EmptyDisk] : ft \in {"Fat12", "Fat16", "Fat32"}}
    \cup {[ft |-> ft, fat |-> UsedFat16(ft), disk |-> UsedDisk16] : ft \in {"Fat12", "Fat16"}}
    \cup {[ft |-> "Fat32", fat |-> UsedFat32, disk |-> UsedDisk32]}
    \cup {[ft |-> "Fat32", fat |-> LabelFat32, disk |-> LabelDisk32]}

-----------------------------------------------------------------------------
(* The program: calls of the public API on one mounted volume *)

W == [disk |-> disk, fat |-> fat]
Pre == [disk |-> disk, fat |-> fat, h |-> h]

\* the record of a call; ok says that this call and every call before it
\* returned Ok
Call(op, path, arg, res, n) ==
    [op |-> op, path |-> path, arg |-> arg, res |-> res, n |-> n, pre |-> Pre,
     ok |-> last.ok /\ res = "Ok"]

Init ==
    /\ \E v \in Volumes : fat_type = v.ft /\ fat = v.fat /\ disk = v.disk
    /\ h = None
    /\ opened = <<>>
    /\ steps = 0
    /\ last = [op |-> "mount", path |-> <<>>, arg |-> <<>>, res |-> "Ok", n |-> 0,
               pre |-> [disk |-> disk, fat |-> fat, h |-> None], ok |-> TRUE]

\* a panic ends the program
Running(limit) == steps < limit /\ last.res # "Panic"

\* a name one byte longer than validate_long_name accepts
LongName == [i \in 1..256 |-> 97]

\* the path names (as character codes): a, a+, d, d/a, F, G, D, D/a, A?, *, d/?,
\* the empty path and the long name
FilePaths == {<<97>>, <<97, 43>>, <<100, 47, 97>>, <<68, 47, 97>>, <<42>>,
              <<100, 47, 63>>, <<>>, LongName}
DirPaths == {<<100>>, <<100, 47, 100>>}
OpenPaths == {<<97>>, <<70>>, <<71>>, <<100, 47, 97>>}
RemovePaths == {<<97>>, <<65, 63>>, <<100>>, <<68>>, <<70>>, <<100, 47, 97>>}

WriteLens == {DIR_ENTRY_SIZE, cluster_size + DIR_ENTRY_SIZE}
ReadLens == {DIR_ENTRY_SIZE, cluster_size + DIR_ENTRY_SIZE}
SeekArgs == {<<"Start", 0>>, <<"Start", DIR_ENTRY_SIZE>>, <<"Start", cluster_size>>,
             <<"Start", cluster_size + DIR_ENTRY_SIZE>>, <<"Start", 8 * cluster_size>>,
             <<"End", 0>>, <<"Current", 0 - DIR_ENTRY_SIZE>>}

\* the entry a path names, resolved as open_file / remove resolve it: [found, e]
RECURSIVE lookup(_, _, _)
lookup(w, dir, path) ==
    LET Go(sp, r) ==
            IF ~r.found \/ sp.rest = None THEN r
            ELSE IF ~is_dir(r.e.data) THEN [found |-> FALSE, e |-> NoEntry]
            ELSE lookup(w, to_dir(r.e), sp.rest[1])
    IN Go(split_path(path), find_entry(w, dir, split_path(path).comp))

\* fs.root_dir().create_file(path); the File it returns is dropped at once
CreateFile(limit, path) ==
    LET Done(r) ==
            /\ disk' = r.w.disk
            /\ fat' = r.w.fat
            /\ last' = Call("create_file", path, <<>>, r.res, 0)
    IN /\ Running(limit)
       /\ Done(create_file(W, root_dir, path))
       /\ steps' = steps + 1
       /\ UNCHANGED <<fat_type, h, opened>>

\* fs.root_dir().create_dir(path)
CreateDir(limit, path) ==
    LET Done(r) ==
            /\ disk' = r.w.disk
            /\ fat' = r.w.fat
            /\ last' = Call("create_dir", path, <<>>, r.res, 0)
    IN /\ Running(limit)
       /\ Done(create_dir(W, root_dir, path))
       /\ steps' = steps + 1
       /\ UNCHANGED <<fat_type, h, opened>>

\* the open handle is a handle of the entry t
HandleOf(t) == t.found /\ h # None /\ h[1].entry[1].pos = t.e.entry_pos

\* fs.root_dir().remove(path), never of the file the open handle refers to
Remove(limit, path) ==
    LET Done(r) ==
            /\ disk' = r.w.disk
            /\ fat' = r.w.fat
            /\ last' = Call("remove", path, <<>>, r.res, 0)
    IN /\ Running(limit)
       /\ ~HandleOf(lookup(W, root_dir, path))
       /\ Done(remove(W, root_dir, path))
       /\ steps' = steps + 1
       /\ UNCHANGED <<fat_type, h, opened>>

\* fs.root_dir().open_file(path), kept as the open handle
OpenFile(limit, path) ==
    LET Done(r) ==
            /\ h' = r.file
            /\ opened' = IF r.file = None THEN <<>> ELSE path
            /\ last' = Call("open_file", path, <<>>, r.res, 0)
    IN /\ Running(limit)
       /\ h = None
       /\ Done(open_file(W, root_dir, path))
       /\ steps' = steps + 1
       /\ UNCHANGED <<fat_type, fat, disk>>

\* file.write(buf) with a buffer of len bytes 0x41
Write(limit, len) ==
    LET Done(r) ==
            /\ disk' = r.w.disk
            /\ fat' = r.w.fat
            /\ h' = Some(r.f)
            /\ last' = Call("write", <<>>, <<len>>, IF r.ok THEN "Ok" ELSE "Err", r.n)
    IN /\ Running(limit)
       /\ h # None
       /\ Done(FileWrite(W, h[1], len, DataRec(65)))
       /\ steps' = steps + 1
       /\ UNCHANGED <<fat_type, opened>>

\* file.read(buf) with a buffer of len bytes
Read(limit, len) ==
    LET Done(r) ==
            /\ h' = Some(r.f)
            /\ last' = Call("read", <<>>, <<len>>, "Ok", r.n)
    IN /\ Running(limit)
       /\ h # None
       /\ Done(FileRead(W, h[1], len))
       /\ steps' = steps + 1
       /\ UNCHANGED <<fat_type, fat, disk, opened>>

\* the position a SeekFrom names: SeekFrom::End needs the size, which a file
\* handle has
SeekTarget(f, pos) ==
    CASE pos[1] = "Start" -> pos[2]
      [] pos[1] = "Current" -> f.offset + pos[2]
      [] OTHER -> FileSize(f)[1] + pos[2]

\* file.seek(pos)
Seek(limit, pos) ==
    LET Done(r) ==
            /\ h' = Some(r.f)
            /\ last' = Call("seek", <<>>, pos, IF r.ok THEN "Ok" ELSE "InvalidInput",
                            r.f.offset)
    IN /\ Running(limit)
       /\ h # None
       /\ Done(FileSeek(W, h[1], SeekTarget(h[1], pos)))
       /\ steps' = steps + 1
       /\ UNCHANGED <<fat_type, fat, disk, opened>>

\* File::seek: [f, res]; "Panic" is the expect() on a stream whose size is
\* unknown
FileSeekFrom(w, f, pos) ==
    LET Done(r) == [f |-> r.f, res |-> IF r.ok THEN "Ok" ELSE "InvalidInput"]
    IN IF pos[1] = "End" /\ FileSize(f) = None THEN [f |-> f, res |-> "Panic"]
       ELSE Done(FileSeek(w, f, SeekTarget(f, pos)))

\* DirRawStream::seek: File::seek, or the seek of the root DiskSlice
StreamSeekFrom(w, s, pos) ==
    LET Done(r) == [f |-> r.f, res |-> IF r.ok THEN "Ok" ELSE "InvalidInput"]
    IN IF s.kind = "Root"
       THEN Done(SliceSeek(s, CASE pos[1] = "Start" -> pos[2]
                                [] pos[1] = "Current" -> s.offset + pos[2]
                                [] OTHER -> RootSize + pos[2]))
       ELSE FileSeekFrom(w, s, pos)

\* the directory a path names, the root directory for the empty path: [res, dir]
DirAt(w, path) ==
    IF path = <<>> THEN [res |-> "Ok", dir |-> Some(root_dir)]
    ELSE open_dir(w, root_dir, path)

DirSeekPaths == {<<>>, <<100>>}
DirSeekArgs == {<<"Start", 0>>, <<"End", 0>>}

\* a seek on the stream of a directory, as the directory engine does them; the
\* stream is a clone that is dropped after
SeekDir(limit, path, pos) ==
    LET Done(r) == last' = Call("dir_seek", path, pos, r.res, r.f.offset)
        At(d) ==
            IF d.res # "Ok" THEN last' = Call("dir_seek", path, pos, d.res, 0)
            ELSE Done(StreamSeekFrom(W, d.dir[1], pos))
    IN /\ Running(limit)
       /\ At(DirAt(W, path))
       /\ steps' = steps + 1
       /\ UNCHANGED <<fat_type, fat, disk, h, opened>>

\* file.truncate()
Truncate(limit) ==
    LET Done(r) ==
            /\ disk' = r.w.disk
            /\ fat' = r.w.fat
            /\ h' = Some(r.f)
            /\ last' = Call("truncate", <<>>, <<>>, "Ok", 0)
    IN /\ Running(limit)
       /\ h # None
       /\ Done(FileTruncate(W, h[1]))
       /\ steps' = steps + 1
       /\ UNCHANGED <<fat_type, opened>>

\* file.flush()
Flush(limit) ==
    LET Done(r) ==
            /\ disk' = r.w.disk
            /\ fat' = r.w.fat
            /\ h' = Some(r.f)
            /\ last' = Call("flush", <<>>, <<>>, "Ok", 0)
    IN /\ Running(limit)
       /\ h # None
       /\ Done(FileFlush(W, h[1]))
       /\ steps' = steps + 1
       /\ UNCHANGED <<fat_type, opened>>

\* drop(file): Drop for File flushes
DropFile(limit) ==
    LET Done(r) ==
            /\ disk' = r.w.disk
            /\ fat' = r.w.fat
            /\ h' = None
            /\ opened' = <<>>
            /\ last' = Call("drop", <<>>, <<>>, "Ok", 0)
    IN /\ Running(limit)
       /\ h # None
       /\ Done(FileFlush(W, h[1]))
       /\ steps' = steps + 1
       /\ UNCHANGED fat_type

Next ==
    \/ \E p \in FilePaths : CreateFile(MaxSteps, p)
    \/ \E p \in DirPaths : CreateDir(MaxSteps, p)
    \/ \E p \in RemovePaths : Remove(MaxSteps, p)
    \/ \E p \in OpenPaths : OpenFile(MaxSteps, p)
    \/ \E len \in WriteLens : Write(MaxSteps, len)
    \/ \E len \in ReadLens : Read(MaxSteps, len)
    \/ \E pos \in SeekArgs : Seek(MaxSteps, pos)
    \/ \E p \in DirSeekPaths, pos \in DirSeekArgs : SeekDir(MaxSteps, p, pos)
    \/ Truncate(MaxSteps)
    \/ Flush(MaxSteps)
    \/ DropFile(MaxSteps)

Spec == Init /\ [][Next]_vars

-----------------------------------------------------------------------------
(* A second program: after at most RtSetup calls of create_file and
   create_dir, some of them with names that are not valid, one file is
   created, written in a loop of write() calls, flushed, opened again by its
   path and read back in a loop of read() calls.
   last.arg holds the number of bytes to transfer, last.n the number
   transferred so far. *)

RtPaths == {<<97>>, <<100, 47, 97>>}

\* directory paths whose last component is no valid name: * and the empty path
InvalidDirPaths == {<<42>>, <<>>}

RtSizes == {0, DIR_ENTRY_SIZE, cluster_size, cluster_size + DIR_ENTRY_SIZE}

\* the byte the program writes, 0x42: the images hold none
RtByte == 66

\* let mut file = fs.root_dir().create_file(path), of a file that did not exist
RtCreate(path, total) ==
    LET Done(r) ==
            /\ r.res = "Ok"
            /\ disk' = r.w.disk
            /\ fat' = r.w.fat
            /\ h' = r.file
            /\ last' = Call("rt_create", path, <<total>>, "Ok", 0)
    IN /\ last.op \in {"mount", "create_file", "create_dir"}
       /\ last.res # "Panic"
       /\ ~lookup(W, root_dir, path).found
       /\ Done(create_file(W, root_dir, path))
       /\ opened' = path
       /\ steps' = steps + 1
       /\ UNCHANGED fat_type

\* one turn of the loop of write_all: file.write(&buf[done..])
RtWrite ==
    LET Done(r) ==
            /\ disk' = r.w.disk
            /\ fat' = r.w.fat
            /\ h' = Some(r.f)
            /\ last' = Call("rt_write", last.path, last.arg,
                            IF r.ok /\ r.n > 0 THEN "Ok" ELSE "Err", last.n + r.n)
    IN /\ last.op \in {"rt_create", "rt_write"}
       /\ last.res = "Ok"
       /\ last.n < last.arg[1]
       /\ Done(FileWrite(W, h[1], last.arg[1] - last.n, DataRec(RtByte)))
       /\ steps' = steps + 1
       /\ UNCHANGED <<fat_type, opened>>

\* file.flush() once every byte is written
RtFlush ==
    LET Done(r) ==
            /\ disk' = r.w.disk
            /\ fat' = r.w.fat
            /\ h' = Some(r.f)
            /\ last' = Call("rt_flush", last.path, last.arg, "Ok", last.n)
    IN /\ last.op \in {"rt_create", "rt_write"}
       /\ last.res = "Ok"
       /\ last.n = last.arg[1]
       /\ Done(FileFlush(W, h[1]))
       /\ steps' = steps + 1
       /\ UNCHANGED <<fat_type, opened>>

\* drop(file); let mut file = fs.root_dir().open_file(path)
RtReopen ==
    LET Opened(w, r) ==
            /\ disk' = w.disk
            /\ fat' = w.fat
            /\ h' = r.file
            /\ last' = Call("rt_reopen", last.path, last.arg, r.res, 0)
        Done(w) == Opened(w, open_file(w, root_dir, last.path))
    IN /\ last.op = "rt_flush"
       /\ Done(FileFlush(W, h[1]).w)
       /\ steps' = steps + 1
       /\ UNCHANGED <<fat_type, opened>>

\* one turn of the reading loop: file.read(&mut buf[done..]); the result is
\* "Eof" when read returns 0 and "Differs" when a byte is not the one written
RtRead ==
    LET Done(r) ==
            /\ h' = Some(r.f)
            /\ last' = Call("rt_read", last.path, last.arg,
                            IF r.n = 0 THEN "Eof"
                            ELSE IF \A k \in 0..(r.n \div DIR_ENTRY_SIZE - 1) :
                                       disk[r.pos \div DIR_ENTRY_SIZE + k] = DataRec(RtByte)
                                 THEN "Ok" ELSE "Differs",
                            last.n + r.n)
    IN /\ last.op \in {"rt_reopen", "rt_read"}
       /\ last.res = "Ok"
       /\ last.n < last.arg[1]
       /\ Done(FileRead(W, h[1], last.arg[1] - last.n))
       /\ steps' = steps + 1
       /\ UNCHANGED <<fat_type, fat, disk, opened>>

NextRoundTrip ==
    \/ \E p \in FilePaths : CreateFile(RtSetup, p)
    \/ \E p \in DirPaths \cup InvalidDirPaths : CreateDir(RtSetup, p)
    \/ \E p \in RtPaths, total \in RtSizes : RtCreate(p, total)
    \/ RtWrite
    \/ RtFlush
    \/ RtReopen
    \/ RtRead

SpecRoundTrip == Init /\ [][NextRoundTrip]_vars

-----------------------------------------------------------------------------
(* A third program: after at most RtSetup calls of create_file a file is
   opened and removed by its path while the handle is alive, and the handle
   is written, flushed and dropped after that. *)

\* fs.root_dir().remove(path) of the file the open handle was opened by
RemoveOpened(limit) ==
    LET Done(r) ==
            /\ disk' = r.w.disk
            /\ fat' = r.w.fat
            /\ last' = Call("remove", opened, <<>>, r.res, 0)
    IN /\ Running(limit)
       /\ h # None
       /\ Done(remove(W, root_dir, opened))
       /\ steps' = steps + 1
       /\ UNCHANGED <<fat_type, h, opened>>

NextStale ==
    \/ \E p \in FilePaths : CreateFile(RtSetup, p)
    \/ \E p \in OpenPaths : OpenFile(MaxSteps, p)
    \/ RemoveOpened(MaxSteps)
    \/ \E len \in WriteLens : Write(MaxSteps, len)
    \/ Flush(MaxSteps)
    \/ DropFile(MaxSteps)

SpecStale == Init /\ [][NextStale]_vars

-----------------------------------------------------------------------------
(* A fourth program: writes of FAT entries.  The variable fat holds the bytes
   of the FAT of a volume of MaxCluster - 1 clusters, with room for one entry
   more; last.arg holds the cluster and the value written, last.before the
   arguments of the call before. *)

\* the byte every byte of the FAT holds at the start
FatFills == {0, 90, 255}

\* the values written at a cluster: Free, Bad, EndOfChain and Data(n) for the
\* smallest and the largest cluster number of the volume and for the largest
\* cluster number a volume of this FAT type can have; Data(0x123) at cluster 3
\* and Data(0x456) at cluster 4
FatValues(ft, cluster) ==
    {Free, Bad, EndOfChain} \cup {Data(n) : n \in {2, MaxCluster, BadRaw(ft) - 2}}
    \cup (IF cluster = 3 THEN {Data(291)} ELSE IF cluster = 4 THEN {Data(1110)} ELSE {})

\* the byte every byte of the FAT behind the entry of the last cluster holds at
\* the start: the rest of the FAT's last sector
FatPads == {0, 255}

\* the bytes of the entries 0 .. MaxCluster
EntryBytes(ft) ==
    CASE ft = "Fat12" -> (3 * (MaxCluster + 1) + 1) \div 2
      [] ft = "Fat16" -> 2 * (MaxCluster + 1)
      [] OTHER -> 4 * (MaxCluster + 1)

InitFat ==
    /\ fat_type \in {"Fat12", "Fat16", "Fat32"}
    /\ \E fill \in FatFills, pad \in FatPads :
           fat = [o \in 0..(4 * (MaxCluster + 2) - 1) |->
                     IF o < EntryBytes(fat_type) THEN fill ELSE pad]
    /\ disk = EmptyDisk
    /\ h = None
    /\ opened = <<>>
    /\ steps = 0
    /\ last = [op |-> "mount", path |-> <<>>, arg |-> <<>>, res |-> "Ok", n |-> 0,
               pre |-> [disk |-> disk, fat |-> fat, h |-> None], ok |-> TRUE]

\* write_fat(fat, fat_type, cluster, value)
FatWriteEntry(cluster, value) ==
    /\ steps < FatSteps
    /\ fat' = WriteFat(fat, fat_type, cluster, value)
    /\ last' = Call("write_fat", <<>>, <<cluster, value>>, "Ok", 0) @@ [before |-> last.arg]
    /\ steps' = steps + 1
    /\ UNCHANGED <<fat_type, disk, h, opened>>

\* alloc_cluster(fat, fat_type, prev_cluster); last.n is the cluster returned
FatAlloc(prev_cluster) ==
    LET r == AllocCluster(fat, fat_type, prev_cluster)
    IN /\ steps < FatSteps
       /\ fat' = r.fat
       /\ last' = Call("alloc_cluster", <<>>, <<prev_cluster>>,
                       IF r.ok THEN "Ok" ELSE "Err", r.cluster) @@ [before |-> last.arg]
       /\ steps' = steps + 1
       /\ UNCHANGED <<fat_type, disk, h, opened>>

\* the cluster the last call wrote at or linked, or returned when it linked
\* none; None after a call that failed
WalkStart ==
    CASE last.op = "write_fat" -> Some(last.arg[1])
      [] last.op = "alloc_cluster" /\ last.res = "Ok" ->
            IF last.arg[1] # None THEN last.arg[1] ELSE Some(last.n)
      [] OTHER -> None

\* the walk that ends the program: ClusterIterator::new(cluster) for the
\* cluster of the last call and then MaxCluster + 1 calls of next(); last.arg
\* holds the start and the items
FatIterate(cluster) ==
    /\ steps <= FatSteps
    /\ WalkStart = Some(cluster)
    /\ last' = Call("cluster_iter", <<>>,
                    <<cluster, IterItems(fat, fat_type, IterNew(cluster), MaxCluster + 1)>>,
                    "Ok", 0) @@ [before |-> last.arg]
    /\ steps' = FatSteps + 1
    /\ UNCHANGED <<fat_type, fat, disk, h, opened>>

NextFat ==
    \/ \E cluster \in Clusters :
           \E value \in FatValues(fat_type, cluster) : FatWriteEntry(cluster, value)
    \/ \E prev_cluster \in {None} \cup {Some(c) : c \in Clusters} : FatAlloc(prev_cluster)
    \/ \E cluster \in 2..(MaxCluster + 1) : FatIterate(cluster)

SpecFat == InitFat /\ [][NextFat]_vars

-----------------------------------------------------------------------------
(* A fifth program: one call on the root directory of a volume another
   implementation has written.  The first DirSlots slots of the directory (all
   its slots on FAT12/16) hold any of the records of DirRecs. *)

\* the records drawn: the end of the directory; the file A; a freed record; the
\* volume label V; a long-name record, a freed one, and one with order 0
DirRecs ==
    {ZeroRec, Rec(<<65>>, 0, 0, 0), set_free(Rec(<<65>>, 0, 0, 0)),
     Rec(<<86>>, ATTR_VOLUME_ID, 0, 0), Rec(<<65>>, ATTR_LFN, 0, 0),
     Rec(<<DIR_ENTRY_FREE_FLAG>>, ATTR_LFN, 0, 0), Rec(<<0>>, ATTR_LFN, 0, 0)}

\* the clusters of the root directory of the FAT32 volume: 2, 3, ...
DirClusters == (DirSlots + SlotsPerCluster - 1) \div SlotsPerCluster

\* the slot of the volume that holds record i of the root directory
DirSlot(i) == IF fat_type = "Fat32" THEN SlotOf(RootCluster, i) ELSE i

InitDir ==
    /\ fat_type \in {"Fat12", "Fat16", "Fat32"}
    /\ fat = IF fat_type = "Fat32"
             THEN [c \in 0..MaxCluster |->
                      IF c < 2 \/ c = DirClusters + 1 THEN EocRaw(fat_type)
                      ELSE IF c <= DirClusters THEN c + 1 ELSE 0]
             ELSE EmptyFat(fat_type)
    /\ \E recs \in [0..((IF fat_type = "Fat32" THEN DirSlots ELSE RootSlots) - 1) -> DirRecs] :
           disk = [a \in Slots |->
                      IF \E i \in DOMAIN recs : a = DirSlot(i)
                      THEN recs[CHOOSE i \in DOMAIN recs : a = DirSlot(i)]
                      ELSE ZeroRec]
    /\ h = None
    /\ opened = <<>>
    /\ steps = 0
    /\ last = [op |-> "mount", path |-> <<>>, arg |-> <<>>, res |-> "Ok", n |-> 0,
               pre |-> [disk |-> disk, fat |-> fat, h |-> None], ok |-> TRUE]

\* find_free_entries(num_entries) on the root directory; last.n is the record
\* the stream returned stands at
DirFindFree(num_entries) ==
    /\ Running(1)
    /\ last' = Call("find_free_entries", <<>>, <<num_entries>>, "Ok",
                    find_free_entries(W, root_dir, num_entries).offset \div DIR_ENTRY_SIZE)
    /\ steps' = steps + 1
    /\ UNCHANGED <<fat_type, fat, disk, h, opened>>

\* iter() on the root directory run to its end; last.arg holds the
\* offset_range of every entry yielded
DirList ==
    LET es == iter(W, root_dir)
    IN /\ Running(1)
       /\ last' = Call("iter", <<>>, [i \in 1..Len(es) |-> es[i].offset_range], "Ok", Len(es))
       /\ steps' = steps + 1
       /\ UNCHANGED <<fat_type, fat, disk, h, opened>>

NextDir ==
    \/ \E num_entries \in 1..3 : DirFindFree(num_entries)
    \/ DirList
    \/ Remove(1, <<65>>)

SpecDir == InitDir /\ [][NextDir]_vars

-----------------------------------------------------------------------------
(* A sixth program: one call of a function of names or of records; last.arg
   holds what it was given and last.out what it gave. *)

\* the characters of the names: a, Z, 1, '.', '+', ' ' and e with an acute
NameChars == {97, 90, 49, 46, 43, 32, 233}

\* the names of at most n characters
NamesUpTo(n) == UNION {[1..k -> NameChars] : k \in 0..n}

\* the names given to generate_short_name: up to NameLen characters, then
\* nothing, eight more letters or a dot and four letters, then at most one
\* character
ShortNameInputs ==
    {x \o m \o y : x \in NamesUpTo(NameLen),
                   m \in {<<>>, <<98, 99, 100, 101, 102, 103, 104, 105>>,
                          <<46, 106, 107, 108, 109>>},
                   y \in NamesUpTo(1)}

\* regular records: every field zero or a value whose bytes differ
FileRecs ==
    {[name |-> nm, attrs |-> at, reserved_0 |-> t, create_time_0 |-> 2 * t,
      create_time_1 |-> 258 * t, create_date |-> 772 * t, access_date |-> 1286 * t,
      hi |-> fh, modify_time |-> 2314 * t, modify_date |-> 2828 * t, lo |-> fl,
      size |-> sz] :
        nm \in {Name83(<<65>>, <<>>), [i \in 1..11 |-> 200 + i]},
        at \in {0, ATTR_DIRECTORY, 55}, t \in {0, 1},
        fh \in {0, 1800, 32767}, fl \in {0, 3342, 65535},
        sz \in {0, 305419896, 2147483647}}

\* long-name records
LfnRecs ==
    {[order |-> od, name_0 |-> [i \in 1..5 |-> n0 * (256 * i + 16 + i)], attrs |-> at,
      entry_type |-> 7 * t, checksum |-> 171 * t,
      name_1 |-> [i \in 1..6 |-> n1 * (256 * (i + 32) + 48 + i)],
      reserved_0 |-> 52719 * t, name_2 |-> [i \in 1..2 |-> n2 * (256 * (i + 64) + 80 + i)]] :
        od \in {65, DIR_ENTRY_FREE_FLAG, 0}, at \in {ATTR_LFN, 63},
        t \in {0, 1}, n0 \in {0, 1}, n1 \in {0, 1}, n2 \in {0, 1}}

RecEntries ==
    {[kind |-> "File", data |-> d] : d \in FileRecs}
    \cup {[kind |-> "Lfn", data |-> d] : d \in LfnRecs}

InitRec ==
    /\ fat_type \in {"Fat12", "Fat16", "Fat32"}
    /\ fat = EmptyFat(fat_type)
    /\ disk = EmptyDisk
    /\ h = None
    /\ opened = <<>>
    /\ steps = 0
    /\ last = [op |-> "mount", path |-> <<>>, arg |-> <<>>, res |-> "Ok", n |-> 0,
               pre |-> [disk |-> disk, fat |-> fat, h |-> None], ok |-> TRUE]

\* generate_short_name(name)
RecShortName(name) ==
    /\ Running(1)
    /\ last' = Call("generate_short_name", <<>>, name, "Ok", 0)
                   @@ [out |-> generate_short_name(name)]
    /\ steps' = steps + 1
    /\ UNCHANGED <<fat_type, fat, disk, h, opened>>

\* entry.serialize, DirEntryData::deserialize of the 32 bytes and serialize of
\* what that gave
RecRoundTrip(entry) ==
    LET bytes == DirEntryData_serialize(entry)
        back == DirEntryData_deserialize(bytes)
    IN /\ Running(1)
       /\ last' = Call("serialize", <<>>, entry, "Ok", 0)
                      @@ [out |-> [bytes |-> bytes, back |-> back,
                                   again |-> DirEntryData_serialize(back)]]
       /\ steps' = steps + 1
       /\ UNCHANGED <<fat_type, fat, disk, h, opened>>

\* a record read from the volume: first_cluster, then set_first_cluster(cluster)
\* and serialize
RecSetFirstCluster(data, cluster) ==
    LET read == DirEntryData_deserialize(DirFileEntryData_serialize(data)).data
        set == set_first_cluster(read, cluster, fat_type)
    IN /\ Running(1)
       /\ last' = Call("set_first_cluster", <<>>, <<data, cluster>>, "Ok", 0)
                      @@ [out |-> [first |-> first_cluster(read, fat_type), set |-> set,
                                   bytes |-> DirFileEntryData_serialize(set)]]
       /\ steps' = steps + 1
       /\ UNCHANGED <<fat_type, fat, disk, h, opened>>

NextRec ==
    \/ \E name \in ShortNameInputs : RecShortName(name)
    \/ \E entry \in RecEntries : RecRoundTrip(entry)
    \/ \E data \in FileRecs, cluster \in {None, Some(3), Some(65539)} :
           RecSetFirstCluster(data, cluster)

SpecRec == InitRec /\ [][NextRec]_vars

-----------------------------------------------------------------------------
(* Observations used by the properties *)

PreW == [disk |-> last.pre.disk, fat |-> last.pre.fat]

\* ceil(p / cluster_size)
ClustersFor(p) == (p + cluster_size - 1) \div cluster_size

\* the set of clusters of a chain
ChainSet(f, first) ==
    LET ch == Chain(f, fat_type, first) IN {ch[i] : i \in 1..Len(ch)}

\* the decoded names iter() yields
Names(w, dir) == LET es == iter(w, dir) IN [i \in 1..Len(es) |-> file_name(es[i])]

\* every record of a directory stream, in stream order
RECURSIVE StreamRecs(_, _)
StreamRecs(w, s) ==
    LET Got(r) ==
            IF r.n = 0 THEN <<>>
            ELSE <<w.disk[r.pos \div DIR_ENTRY_SIZE]>> \o StreamRecs(w, r.f)
    IN Got(StreamRead(w, s, DIR_ENTRY_SIZE))

\* the directory a path's last component lives in, and that component
RECURSIVE parent_of(_, _, _)
parent_of(w, dir, path) ==
    LET Go(sp, r) ==
            IF sp.rest = None THEN [found |-> TRUE, dir |-> dir, name |-> sp.comp]
            ELSE IF ~r.found \/ ~is_dir(r.e.data)
                 THEN [found |-> FALSE, dir |-> dir, name |-> <<>>]
            ELSE parent_of(w, to_dir(r.e), sp.rest[1])
    IN Go(split_path(path), find_entry(w, dir, split_path(path).comp))

\* the call before this state was op, and returned res
Did(op, res) == last.op = op /\ last.res = res

-----------------------------------------------------------------------------
(* C1 .. C10 *)

\* C1: truncate() at an offset p > 0 leaves the FAT entry of current_cluster
\* EndOfChain and the FAT entry of every cluster that followed current_cluster
\* in the chain before the call Free.
C1_TruncateReleasesTail ==
    (last.op = "truncate" /\ last.pre.h[1].offset > 0) =>
        LET cc == last.pre.h[1].current_cluster[1]
            after == Tail(Chain(last.pre.fat, fat_type, Some(cc)))
        IN /\ read_fat(fat, fat_type, cc) = EndOfChain
           /\ \A i \in 1..Len(after) : read_fat(fat, fat_type, after[i]) = Free

\* C2: after truncate() at offset p of a regular file, read() on the same handle
\* returns 0 bytes and the walk of the FAT from the file's first cluster visits
\* exactly ceil(p / cluster_size) clusters.
C2_TruncateReadAndChainLength ==
    last.op = "truncate" =>
        /\ \A len \in ReadLens : FileRead(W, h[1], len).n = 0
        /\ Len(Chain(fat, fat_type, h[1].first_cluster)) = ClustersFor(last.pre.h[1].offset)

C2_Witness ==
    /\ last.op = "truncate"
    /\ last.pre.h[1].offset > 0
    /\ Len(Chain(last.pre.fat, fat_type, last.pre.h[1].first_cluster))
         > ClustersFor(last.pre.h[1].offset)

\* C3: truncate() at offset 0 of a file with a chain of k >= 1 clusters sets the
\* entry size to 0 and first_cluster to None in the handle and in the entry
\* editor, leaves each of the k clusters Free, and changes no other FAT entry.
C3_TruncateAtZeroFreesChain ==
    (last.op = "truncate" /\ last.pre.h[1].offset = 0
         /\ last.pre.h[1].first_cluster # None) =>
        LET old == ChainSet(last.pre.fat, last.pre.h[1].first_cluster)
        IN /\ h[1].entry[1].data.size = 0
           /\ h[1].first_cluster = None
           /\ first_cluster(h[1].entry[1].data, fat_type) = None
           /\ \A c \in old : read_fat(fat, fat_type, c) = Free
           /\ \A c \in (DOMAIN fat) \ old : fat[c] = last.pre.fat[c]

C3_Witness ==
    /\ last.op = "truncate"
    /\ last.pre.h[1].offset = 0
    /\ Cardinality(ChainSet(last.pre.fat, last.pre.h[1].first_cluster)) >= 2
    /\ last.pre.h[1].entry[1].data.size > 0

\* C4: after create_dir(p) creates a directory, iter() on it yields exactly two
\* entries, whose decoded names are "." and ".." in that order.
C4_NewDirListsDotAndDotDot ==
    (Did("create_dir", "Ok") /\ ~lookup(PreW, root_dir, last.path).found) =>
        Names(W, to_dir(lookup(W, root_dir, last.path).e)) = << <<46>>, <<46, 46>> >>

\* a directory entry whose directory holds exactly the two records create_dir writes
HoldsOnlySpecialEntries(w, e) ==
    LET es == iter(w, to_dir(e))
    IN /\ is_dir(e.data)
       /\ first_cluster(e.data, fat_type) # None
       /\ Len(es) = 2
       /\ es[1].data.name = generate_short_name(<<46>>)
       /\ es[2].data.name = generate_short_name(<<46, 46>>)

\* C5: remove() of a directory that holds only the two special entries written
\* by create_dir returns Ok, and the parent no longer lists the directory.
C5_RemoveOfCreatedDirSucceeds ==
    (last.op = "remove" /\ lookup(PreW, root_dir, last.path).found
         /\ HoldsOnlySpecialEntries(PreW, lookup(PreW, root_dir, last.path).e)) =>
        /\ last.res = "Ok"
        /\ ~lookup(W, root_dir, last.path).found

\* C6: after remove(path) returns Ok a lookup of the same path fails with
\* NotFound, and every slot of the removed entry's offset_range has first
\* byte 0xE5.
C6_RemovedPathNotFound ==
    Did("remove", "Ok") =>
        LET old == lookup(PreW, root_dir, last.path).e
            recs == StreamRecs(W, parent_of(PreW, root_dir, last.path).dir)
        IN /\ ~lookup(W, root_dir, last.path).found
           /\ \A k \in 1..Len(recs) :
                 ((k - 1) * DIR_ENTRY_SIZE >= old.offset_range[1]
                     /\ k * DIR_ENTRY_SIZE <= old.offset_range[2])
                 => recs[k].name[1] = DIR_ENTRY_FREE_FLAG

\* C7: remove(path) of an entry with a first cluster frees the whole chain and
\* changes no FAT entry outside it.
C7_RemoveFreesChain ==
    (Did("remove", "Ok")
         /\ first_cluster(lookup(PreW, root_dir, last.path).e.data, fat_type) # None) =>
        LET old == ChainSet(last.pre.fat,
                            first_cluster(lookup(PreW, root_dir, last.path).e.data, fat_type))
        IN /\ \A c \in old : read_fat(fat, fat_type, c) = Free
           /\ \A c \in (DOMAIN fat) \ old : fat[c] = last.pre.fat[c]

C7_Witness ==
    /\ Did("remove", "Ok")
    /\ Cardinality(ChainSet(last.pre.fat,
           first_cluster(lookup(PreW, root_dir, last.path).e.data, fat_type))) >= 2

\* a directory entry whose directory lists an entry named neither "." nor ".."
HoldsOtherEntries(w, e) ==
    /\ is_dir(e.data)
    /\ \E n \in {Names(w, to_dir(e))[i] : i \in 1..Len(Names(w, to_dir(e)))} :
          n # <<46>> /\ n # <<46, 46>>

\* C8: remove(path) of a directory that contains an entry other than "." and
\* ".." returns NotFound and writes nothing: no FAT entry and no record changes.
C8_RemoveNonEmptyDirRefused ==
    (last.op = "remove" /\ lookup(PreW, root_dir, last.path).found
         /\ HoldsOtherEntries(PreW, lookup(PreW, root_dir, last.path).e)) =>
        /\ last.res = "NotFound"
        /\ fat = last.pre.fat
        /\ disk = last.pre.disk

C8_Witness ==
    /\ last.op = "remove"
    /\ lookup(PreW, root_dir, last.path).found
    /\ HoldsOtherEntries(PreW, lookup(PreW, root_dir, last.path).e)
    /\ \E i \in 1..Len(iter(PreW, to_dir(lookup(PreW, root_dir, last.path).e))) :
          is_file(iter(PreW, to_dir(lookup(PreW, root_dir, last.path).e))[i].data)

\* a name of 1..8 base and 0..3 extension characters, all of [A-Za-z0-9]
AlphaNum(c) == (c >= 97 /\ c <= 122) \/ (c >= 65 /\ c <= 90) \/ (c >= 48 /\ c <= 57)
Plain83(name) ==
    LET dot == LastDot(name)
        base == IF dot = 0 THEN name ELSE SubSeq(name, 1, dot - 1)
        ext == IF dot = 0 THEN <<>> ELSE SubSeq(name, dot + 1, Len(name))
    IN /\ Len(base) >= 1 /\ Len(base) <= 8 /\ Len(ext) <= 3
       /\ (dot # 0 => Len(ext) >= 1)
       /\ \A i \in 1..Len(base) : AlphaNum(base[i])
       /\ \A i \in 1..Len(ext) : AlphaNum(ext[i])

\* seq with its k-th element left out
Without(seq, k) == [i \in 1..(Len(seq) - 1) |-> IF i < k THEN seq[i] ELSE seq[i + 1]]

\* C9: create_file(name) of a plain 8.3 name in a directory with no matching
\* entry adds exactly one logical entry to iter(): the upper-cased name, a
\* file of length 0 with no first cluster; the entries present before are
\* still yielded, unchanged.
C9_CreateFileAddsOneEntry ==
    (Did("create_file", "Ok") /\ ~lookup(PreW, root_dir, last.path).found
         /\ Plain83(parent_of(PreW, root_dir, last.path).name)) =>
        LET p == parent_of(PreW, root_dir, last.path)
            before == iter(PreW, p.dir)
            after == iter(W, p.dir)
        IN \E k \in 1..Len(after) :
              /\ Without(after, k) = before
              /\ file_name(after[k]) = [i \in 1..Len(p.name) |-> ToUpper(p.name[i])]
              /\ is_file(after[k].data)
              /\ after[k].data.size = 0
              /\ first_cluster(after[k].data, fat_type) = None

\* the number of live entries of path's directory that carry the short name
\* generated for path's last component
RecordsFor(w, path) ==
    LET p == parent_of(w, root_dir, path)
        es == iter(w, p.dir)
    IN Cardinality({k \in 1..Len(es) : es[k].data.name = generate_short_name(p.name)})

\* C10: create_file is idempotent for every name validate_long_name accepts: a
\* create_file(n) in a directory that already holds a record for n returns the
\* existing file and writes no record, so the directory holds exactly one
\* record for n.
C10_CreateFileIdempotent ==
    (Did("create_file", "Ok")
         /\ validate_long_name(parent_of(PreW, root_dir, last.path).name)
         /\ RecordsFor(PreW, last.path) >= 1) =>
        /\ disk = last.pre.disk
        /\ fat = last.pre.fat
        /\ RecordsFor(W, last.path) = 1

-----------------------------------------------------------------------------
(* C11 .. C20 *)

\* C11: a new empty file written with N bytes by a loop of write() calls and
\* flushed is found, when opened again by its path, with size N and a chain
\* of exactly ceil(N / cluster_size) clusters, and a loop of read() calls
\* returns the N bytes written.
C11_WriteReadRoundTrip ==
    /\ last.op = "rt_reopen" =>
          /\ last.res = "Ok"
          /\ FileSize(h[1]) = Some(last.arg[1])
          /\ Len(Chain(fat, fat_type, h[1].first_cluster)) = ClustersFor(last.arg[1])
    /\ last.op = "rt_read" => last.res = "Ok"

\* the cluster whose data area holds the slot a
ClusterOfSlot(a) == (a - RootSlots) \div SlotsPerCluster + 2

\* C12: one write(buf) or read(buf) transfers at most
\* min(buf.len(), cluster_size - offset % cluster_size) bytes (a read of a file
\* at most size - offset), all to or from one cluster, and advances offset by
\* exactly the count it returns.
C12_TransferWithinOneCluster ==
    /\ Did("write", "Ok") =>
          LET f0 == last.pre.h[1]
              changed == {a \in Slots : disk[a] # last.pre.disk[a]}
          IN /\ last.n <= Min(last.arg[1], cluster_size - (f0.offset % cluster_size))
             /\ h[1].offset = f0.offset + last.n
             /\ Cardinality(changed) * DIR_ENTRY_SIZE <= last.n
             /\ \A a \in changed :
                   a >= RootSlots /\ Some(ClusterOfSlot(a)) = h[1].current_cluster
    /\ last.op = "read" =>
          LET f0 == last.pre.h[1]
              from == FileRead(PreW, f0, last.arg[1]).pos
          IN /\ last.n <= Min(last.arg[1], cluster_size - (f0.offset % cluster_size))
             /\ last.n <= FileSize(f0)[1] - f0.offset
             /\ h[1].offset = f0.offset + last.n
             /\ last.n > 0 =>
                   /\ (from - DataStart) \div cluster_size
                        = (from + last.n - 1 - DataStart) \div cluster_size
                   /\ Some(ClusterOfSlot(from \div DIR_ENTRY_SIZE)) = h[1].current_cluster

C12_Witness ==
    /\ Did("write", "Ok")
    /\ last.n > 0
    /\ last.n < last.arg[1]
    /\ last.pre.h[1].offset % cluster_size # 0

\* C13: on a file of size s a seek to a position greater than s leaves
\* offset = s and returns s; a seek to position 0 leaves offset = 0 and
\* current_cluster = None.
C13_SeekClampsAndRewinds ==
    Did("seek", "Ok") =>
        LET f0 == last.pre.h[1]
            target == SeekTarget(f0, last.arg)
            s == FileSize(f0)[1]
        IN /\ target > s => (h[1].offset = s /\ last.n = s)
           /\ target = 0 => (h[1].offset = 0 /\ h[1].current_cluster = None)

C13_Witness ==
    /\ Did("seek", "Ok")
    /\ SeekTarget(last.pre.h[1], last.arg) > FileSize(last.pre.h[1])[1]
    /\ FileSize(last.pre.h[1])[1] > cluster_size
    /\ last.pre.h[1].offset = 0

\* C14: seek(SeekFrom::End(x)) on a cluster-chain stream whose size is unknown
\* (a directory stream, a stream with no entry editor) returns an error of
\* kind InvalidInput and leaves the stream where it was.
C14_SeekEndUnknownSize ==
    (last.op = "dir_seek" /\ last.arg[1] = "End"
         /\ DirAt(PreW, last.path).res = "Ok"
         /\ DirAt(PreW, last.path).dir[1].kind = "File"
         /\ FileSize(DirAt(PreW, last.path).dir[1]) = None) =>
        /\ last.res = "InvalidInput"
        /\ last.n = DirAt(PreW, last.path).dir[1].offset

\* the directory record of the open file: the one a lookup of the path the
\* handle was opened by reads
OpenRecord(w) == lookup(w, root_dir, opened)

\* C15: the on-disk directory record of an open file is not changed by write()
\* or truncate(); after flush() its size and first cluster are those of the
\* handle's editor, the editor is clean, and a repeated flush writes nothing.
C15_RecordWrittenOnFlushOnly ==
    /\ (last.op \in {"write", "truncate"} /\ last.res = "Ok") =>
          /\ OpenRecord(W).found
          /\ OpenRecord(W).e.data = OpenRecord(PreW).e.data
    /\ Did("flush", "Ok") =>
          /\ OpenRecord(W).found
          /\ OpenRecord(W).e.data.size = h[1].entry[1].data.size
          /\ first_cluster(OpenRecord(W).e.data, fat_type)
               = first_cluster(h[1].entry[1].data, fat_type)
          /\ ~h[1].entry[1].dirty
          /\ FileFlush(W, h[1]).w = W

\* C16: create_file(path) whose last component is empty, longer than 255 bytes
\* or holds a character outside the accepted set returns InvalidInput and
\* writes nothing, in every directory.
C16_InvalidNameRejected ==
    (last.op = "create_file"
         /\ parent_of(PreW, root_dir, last.path).found
         /\ ~validate_long_name(parent_of(PreW, root_dir, last.path).name)) =>
        /\ last.res = "InvalidInput"
        /\ disk = last.pre.disk
        /\ fat = last.pre.fat

\* the directories of the volume: the root and those the root lists
Dirs(w) ==
    {root_dir} \cup {to_dir(iter(w, root_dir)[i]) :
                        i \in {k \in 1..Len(iter(w, root_dir)) :
                                  is_dir(iter(w, root_dir)[k].data)}}

\* the indexes of the entries of es with the decoded name `name`, letter case
\* ignored
Matches(es, name) ==
    {i \in 1..Len(es) :
        /\ Len(file_name(es[i])) = Len(name)
        /\ \A k \in 1..Len(name) : ToUpper(file_name(es[i])[k]) = ToUpper(name[k])}

\* C17: the lookup of a single path component (open_file, remove) takes the
\* first entry, in directory order, whose decoded short name equals the
\* component with ASCII letter case ignored, and fails with NotFound when no
\* entry matches; a lookup alone changes neither the directory nor the FAT.
C17_LookupTakesFirstMatch ==
    (last.op \in {"open_file", "remove"} /\ split_path(last.path).rest = None) =>
        LET es == iter(PreW, root_dir)
            hits == Matches(es, split_path(last.path).comp)
            first == es[CHOOSE i \in hits : \A j \in hits : i <= j]
        IN /\ hits = {} => (last.res = "NotFound" /\ disk = last.pre.disk
                               /\ fat = last.pre.fat)
           /\ (hits # {} /\ last.op = "open_file") =>
                 /\ disk = last.pre.disk /\ fat = last.pre.fat
                 /\ last.res = IF is_dir(first.data) THEN "Panic" ELSE "Ok"
                 /\ last.res = "Ok" =>
                       (h[1].entry[1].data = first.data
                            /\ h[1].entry[1].pos = first.entry_pos)
           /\ (hits # {} /\ last.op = "remove" /\ last.res = "Ok") =>
                 iter(W, root_dir)
                     = Without(es, CHOOSE i \in hits : \A j \in hits : i <= j)

C17_Witness ==
    /\ Did("remove", "Ok")
    /\ split_path(last.path).rest = None
    /\ Cardinality(Matches(iter(PreW, root_dir), split_path(last.path).comp)) >= 2

\* the records of a directory stream in front of its first record with first
\* byte 0x00
BeforeEnd(recs) ==
    LET ends == {i \in 1..Len(recs) : recs[i].name[1] = 0}
    IN IF ends = {} THEN recs
       ELSE SubSeq(recs, 1, (CHOOSE i \in ends : \A j \in ends : i <= j) - 1)

\* a regular record that is neither free nor a volume label
Listed(rec) ==
    /\ rec.attrs % 16 # ATTR_LFN
    /\ rec.name[1] # DIR_ENTRY_FREE_FLAG
    /\ (rec.attrs \div ATTR_VOLUME_ID) % 2 = 0

\* C18: iter() yields, in on-disk order, exactly the regular records that are
\* neither free nor VOLUME_ID and that precede the first record whose first
\* byte is 0x00, and nothing located at or after that record.
C18_IterYieldsListedRecords ==
    \A dir \in Dirs(W) :
        LET want == SelectSeq(BeforeEnd(StreamRecs(W, dir)), Listed)
            got == iter(W, dir)
        IN /\ Len(got) = Len(want)
           /\ \A i \in 1..Len(got) : got[i].data = deserialize_rec(want[i])

\* a directory whose stream holds only listed records, up to its very end
ExactlyFull(w, dir) ==
    /\ StreamRecs(w, dir) # <<>>
    /\ \A i \in 1..Len(StreamRecs(w, dir)) :
          StreamRecs(w, dir)[i].name[1] # 0 /\ Listed(StreamRecs(w, dir)[i])

\* C19: iter() on a directory whose live records exactly fill its last cluster,
\* with no 0x00 record anywhere, yields every record and then ends.
C19_FullDirectoryIterationEnds ==
    \A dir \in Dirs(W) :
        ExactlyFull(W, dir) =>
            /\ Len(iter(W, dir)) = Len(StreamRecs(W, dir))
            /\ \A i \in 1..Len(iter(W, dir)) :
                  iter(W, dir)[i].data = deserialize_rec(StreamRecs(W, dir)[i])

C19_Witness ==
    /\ last.op = "create_file"
    /\ fat_type = "Fat32"
    /\ ExactlyFull(W, root_dir)
    /\ ~ExactlyFull(PreW, root_dir)
    /\ Len(iter(W, root_dir)) = 2 * SlotsPerCluster

\* the walk of the FAT from a first cluster meets only Data and EndOfChain
\* entries
RECURSIVE WalkMeetsOnlyLinks(_, _, _)
WalkMeetsOnlyLinks(f, cluster, fuel) ==
    \/ cluster = None
    \/ fuel = 0
    \/ /\ cluster[1] \in DOMAIN f
       /\ read_fat(f, fat_type, cluster[1]).tag \in {"Data", "EndOfChain"}
       /\ WalkMeetsOnlyLinks(f, get_next_cluster(f, fat_type, cluster[1]), fuel - 1)

\* C20: after every sequence of successful calls the chain of every live
\* directory entry, walked from its first cluster, meets only FAT entries
\* Data(next) or EndOfChain, never Free or Bad.  It is stated for the states
\* in which no handle holds a change it has not flushed yet.
C20_ChainsWellFormed ==
    (last.res = "Ok" /\ (h = None \/ ~h[1].entry[1].dirty)) =>
        \A dir \in Dirs(W) :
            \A i \in 1..Len(iter(W, dir)) :
                WalkMeetsOnlyLinks(fat, first_cluster(iter(W, dir)[i].data, fat_type),
                                   MaxCluster)

-----------------------------------------------------------------------------
(* C21 .. C30 *)

\* no handle holds a change it has not flushed yet
Flushed == h = None \/ ~h[1].entry[1].dirty

\* the clusters of the volume a walk of the FAT from `cluster` visits
RECURSIVE ReachFrom(_, _, _)
ReachFrom(f, cluster, fuel) ==
    IF cluster = None \/ fuel = 0 THEN {}
    ELSE IF cluster[1] \notin Clusters THEN {}
    ELSE {cluster[1]} \cup ReachFrom(f, get_next_cluster(f, fat_type, cluster[1]), fuel - 1)

\* the first clusters of the live directory entries of the volume
LiveFirstClusters(w) ==
    UNION {{first_cluster(iter(w, dir)[i].data, fat_type) : i \in 1..Len(iter(w, dir))} :
              dir \in Dirs(w)}

\* the clusters reachable from the first cluster of a live directory entry or
\* of the root directory
Referenced(w) ==
    ReachFrom(w.fat, root_dir.first_cluster, MaxCluster)
        \cup UNION {ReachFrom(w.fat, first, MaxCluster) : first \in LiveFirstClusters(w)}

\* C21: after a sequence of calls that each returned Ok, with every change of
\* the handle flushed, every cluster numbered >= 2 whose FAT entry is not Free
\* is reachable from the first cluster of some live directory entry or of the
\* root directory.
C21_NoClusterLeak ==
    (last.ok /\ Flushed) =>
        \A c \in Clusters : read_fat(fat, fat_type, c) # Free => c \in Referenced(W)

\* the live directory entries of the volume: the directory, the index iter()
\* yields the entry at, and its record
EntriesOf(w) ==
    UNION {{[dir |-> dir, i |-> i, data |-> iter(w, dir)[i].data] :
               i \in 1..Len(iter(w, dir))} : dir \in Dirs(w)}

\* the clusters reachable from the first cluster of an entry
ChainOfEntry(w, e) == ReachFrom(w.fat, first_cluster(e.data, fat_type), MaxCluster)

\* no cluster is reachable from two different entries of es
Disjoint(w, es) ==
    \A a \in es : \A b \in es : a # b => ChainOfEntry(w, a) \cap ChainOfEntry(w, b) = {}

\* a "." or ".." record: a directory record with the name create_dir stores
\* for it, or with the name "." or ".." itself
Special(e) ==
    /\ is_dir(e.data)
    /\ e.data.name \in {generate_short_name(<<46>>), generate_short_name(<<46, 46>>),
                        Name83(<<46>>, <<>>), Name83(<<46, 46>>, <<>>)}

\* C22: after any sequence of successful calls no cluster is reachable from
\* the first clusters of two different live directory entries.  It is stated
\* for the states in which no handle holds a change it has not flushed yet,
\* and for the entries other than the "." and ".." records, which name the
\* clusters of their own and of the parent directory.
C22_ChainsDisjoint ==
    (last.ok /\ Flushed) => Disjoint(W, {e \in EntriesOf(W) : ~Special(e)})

\* the first clusters of the entries of directory dir whose name field is name
FirstClustersNamed(w, dir, name) ==
    {first_cluster(iter(w, dir)[i].data, fat_type) :
        i \in {k \in 1..Len(iter(w, dir)) : iter(w, dir)[k].data.name = name}}

\* C23: in a directory produced by create_dir the first cluster of the "."
\* record is the new directory's first cluster, and the first cluster of the
\* ".." record is the parent's first cluster, which is None (stored as 0) when
\* the parent is the root directory, on FAT12/16 and on FAT32.
C23_SpecialEntriesClusters ==
    (Did("create_dir", "Ok") /\ ~lookup(PreW, root_dir, last.path).found) =>
        LET e == lookup(W, root_dir, last.path).e
            parent == lookup(PreW, root_dir, split_path(last.path).comp).e
        IN /\ FirstClustersNamed(W, to_dir(e), generate_short_name(<<46>>))
                = {first_cluster(e.data, fat_type)}
           /\ FirstClustersNamed(W, to_dir(e), generate_short_name(<<46, 46>>))
                = {IF split_path(last.path).rest = None THEN None
                   ELSE first_cluster(parent.data, fat_type)}

\* C24: a directory created by create_dir holds no records beyond the two it
\* writes, whatever the allocated cluster held before: iter() yields two
\* entries, the "." and ".." records are the first two records of the
\* directory, and every record behind them has first byte 0x00.
C24_NewDirHoldsNoStaleRecords ==
    (Did("create_dir", "Ok") /\ ~lookup(PreW, root_dir, last.path).found) =>
        LET newdir == to_dir(lookup(W, root_dir, last.path).e)
            recs == StreamRecs(W, newdir)
        IN /\ Len(iter(W, newdir)) = 2
           /\ Len(recs) >= 2
           /\ recs[1].name = generate_short_name(<<46>>)
           /\ recs[2].name = generate_short_name(<<46, 46>>)
           /\ \A k \in 3..Len(recs) : recs[k].name[1] = 0

\* C25: a create_dir call that returns an error leaves the volume unchanged:
\* no FAT entry differs from its value before the call and no directory
\* record was written.
C25_FailedCreateDirChangesNothing ==
    (last.op = "create_dir" /\ last.res \notin {"Ok", "Panic"}) =>
        /\ fat = last.pre.fat
        /\ disk = last.pre.disk

\* the slot of the directory record a handle's editor writes to
HandleSlot(f) == f.entry[1].pos \div DIR_ENTRY_SIZE

\* a handle whose directory record is marked free: the file was removed
\* while the handle was open
Stale(pre) ==
    /\ pre.h # None
    /\ pre.disk[HandleSlot(pre.h[1])].name[1] = DIR_ENTRY_FREE_FLAG

\* C26: once remove(path) has returned Ok, a write, flush or drop of a handle
\* of that path that was opened before the remove leaves the first byte of
\* the removed record's slot 0xE5, and makes no directory entry appear or
\* change, so that the clusters of the removed file stay unreferenced.
C26_RemovedStaysRemoved ==
    (last.op \in {"write", "flush", "drop"} /\ Stale(last.pre)) =>
        /\ disk[HandleSlot(last.pre.h[1])].name[1] = DIR_ENTRY_FREE_FLAG
        /\ EntriesOf(W) = EntriesOf(PreW)

\* C27: for the file handle, after any sequence of read, write, seek and
\* truncate calls, first_cluster is None if and only if offset = 0 and
\* size = 0.
C27_FirstClusterNoneIffEmpty ==
    h # None =>
        (h[1].first_cluster = None <=> (h[1].offset = 0 /\ FileSize(h[1]) = Some(0)))

C27_Witness ==
    /\ Did("truncate", "Ok")
    /\ last.pre.h[1].first_cluster # None
    /\ FileSize(last.pre.h[1]) # Some(0)
    /\ h[1].first_cluster = None

\* C28: for the file handle, after any sequence of read, write, seek and
\* truncate calls, current_cluster is None exactly when offset = 0, and
\* otherwise it is the cluster at chain index ceil(offset / cluster_size) - 1
\* counted from first_cluster (the previous cluster when offset lies on a
\* cluster boundary).
C28_CursorInvariant ==
    h # None =>
        LET f == h[1]
            ch == Chain(fat, fat_type, f.first_cluster)
        IN IF f.offset = 0 THEN f.current_cluster = None
           ELSE /\ f.current_cluster # None
                /\ ClustersFor(f.offset) <= Len(ch)
                /\ f.current_cluster[1] = ch[ClustersFor(f.offset)]

C28_Witness ==
    /\ Did("seek", "Ok")
    /\ last.pre.h[1].offset > cluster_size
    /\ h[1].offset = cluster_size
    /\ h[1].current_cluster = h[1].first_cluster

\* the cluster and the value of the last write of a FAT entry
Written == [cluster |-> last.arg[1], value |-> last.arg[2]]

\* C29: for each FAT width, write(c, v) followed by read(c) returns v, for v
\* Free, Bad, EndOfChain or Data(n) with 2 <= n <= max_cluster, and the
\* decoded values of the entries c - 1 and c + 1 are the same as before the
\* write.
C29_FatEntryRoundTrip ==
    last.op = "write_fat" =>
        /\ ReadFat(fat, fat_type, Written.cluster) = Written.value
        /\ \A c \in {Written.cluster - 1, Written.cluster + 1} :
              ReadFat(fat, fat_type, c) = ReadFat(last.pre.fat, fat_type, c)

C29_Witness ==
    /\ last.op = "write_fat"
    /\ fat_type = "Fat12"
    /\ Written.cluster % 2 = 1
    /\ Written.value = Data(BadRaw("Fat12") - 2)
    /\ ReadFat(last.pre.fat, fat_type, Written.cluster) = Data(MaxCluster)
    /\ ReadFat(fat, fat_type, Written.cluster - 1).tag = "Data"
    /\ ReadFat(fat, fat_type, Written.cluster + 1).tag = "Data"

\* C30: a write of any FatValue to a FAT32 entry preserves the upper 4 bits of
\* the 32-bit word on disk: bits 28..31 of the word after the write are bits
\* 28..31 of the word before it.
C30_Fat32UpperBitsKept ==
    (last.op = "write_fat" /\ fat_type = "Fat32") =>
        fat[4 * Written.cluster + 3] \div 16 = last.pre.fat[4 * Written.cluster + 3] \div 16

-----------------------------------------------------------------------------
(* C31 .. C39 *)

\* the last two calls wrote Data(0x123) at cluster 3 and then Data(0x456) at
\* cluster 4 of a FAT12 volume
Packed ==
    /\ fat_type = "Fat12"
    /\ last.op = "write_fat"
    /\ last.before = <<3, Data(291)>>
    /\ last.arg = <<4, Data(1110)>>

\* C31 as stated: after writing Data(0x123) at cluster 3 and then Data(0x456)
\* at cluster 4 on FAT12, both entries read back as written and the FAT bytes
\* at offsets 4, 5 and 6 are 0x23, 0x61 and 0x45.
C31_Fat12PackingBytes ==
    Packed =>
        /\ ReadFat(fat, "Fat12", 3) = Data(291)
        /\ ReadFat(fat, "Fat12", 4) = Data(1110)
        /\ fat[4] = 35 /\ fat[5] = 97 /\ fat[6] = 69

\* C31, amended: after the two writes both entries read back as written;
\* cluster 3 (odd) is the high 12 bits of the word at offsets 4 and 5, so the
\* high half of byte 4 is 0x3 and byte 5 is 0x12; cluster 4 (even) is the low
\* 12 bits of the word at offsets 6 and 7, so byte 6 is 0x56 and the low half of
\* byte 7 is 0x4; the low half of byte 4 and the high half of byte 7 belong to
\* clusters 2 and 5 and the second write leaves them alone.
C31_Fat12Packing ==
    Packed =>
        /\ ReadFat(fat, "Fat12", 3) = Data(291)
        /\ ReadFat(fat, "Fat12", 4) = Data(1110)
        /\ fat[4] \div 16 = 3 /\ fat[5] = 18 /\ fat[6] = 86 /\ fat[7] % 16 = 4
        /\ fat[4] % 16 = last.pre.fat[4] % 16
        /\ fat[7] \div 16 = last.pre.fat[7] \div 16
        /\ ReadFat(fat, "Fat12", 2) = ReadFat(last.pre.fat, "Fat12", 2)
        /\ ReadFat(fat, "Fat12", 5) = ReadFat(last.pre.fat, "Fat12", 5)

C31_Witness == Packed /\ fat[4] = 58 /\ fat[7] = 84

\* the clusters whose entry lies inside the bytes of the FAT
Entries(b, ft) == {c \in 0..(4 * (MaxCluster + 2)) : CanGet(b, ft, c)}

\* the last call was alloc_cluster(prev) and it returned Ok(last.n)
Allocated == last.op = "alloc_cluster" /\ last.res = "Ok"

\* what C32 says of every alloc_cluster but FAT[new]: new is the lowest cluster
\* >= 2 whose entry decoded as Free, each entry decoded on its own; FAT[prev] is
\* Data(new) when prev is given; no other entry changed
AllocFindsAndLinks(new, prev) ==
    /\ new >= 2 /\ new \in Entries(last.pre.fat, fat_type)
    /\ ReadFat(last.pre.fat, fat_type, new) = Free
    /\ \A c \in 2..(new - 1) : ReadFat(last.pre.fat, fat_type, c) # Free
    /\ prev # None => ReadFat(fat, fat_type, prev[1]) = Data(new)
    /\ \A c \in Entries(fat, fat_type) \ ({new} \cup {prev[i] : i \in 1..Len(prev)}) :
          ReadFat(fat, fat_type, c) = ReadFat(last.pre.fat, fat_type, c)

C33_FullVolumeAllocFails ==
    (/\ last.op = "alloc_cluster"
     /\ \A c \in Clusters : ReadFat(last.pre.fat, fat_type, c) # Free)
        => /\ last.res = "Err"
           /\ last.n \notin (MaxCluster + 1)..(4 * (MaxCluster + 2))
           /\ fat = last.pre.fat

\* the last call walked a chain: ClusterIterator::new(Walk.start) and the items
\* of its calls of next()
Walk == [start |-> last.arg[1], items |-> last.arg[2]]

\* the item next() must give after the item `from`: nothing after the end or an
\* error, an error when the entry of `from` cannot be read, else the successor
\* the FAT gives for `from`, None when the entry is EndOfChain, Bad or Free
Successor(from) ==
    IF from = None \/ from = ErrItem THEN None
    ELSE IF ~CanGet(fat, fat_type, from[1]) THEN ErrItem
    ELSE LET val == ReadFat(fat, fat_type, from[1])
         IN IF val.tag = "Data" THEN Some(val.n) ELSE None

\* C34 as stated: the first next() of an iterator made by new(start) returns
\* start, each later next() returns the FAT successor of the cluster returned
\* before, and next() returns None once the entry of the last returned cluster
\* is EndOfChain, Bad or Free.
C34_IterYieldsStartFirst ==
    last.op = "cluster_iter" =>
        /\ Walk.items[1] = Some(Walk.start)
        /\ \A i \in 2..Len(Walk.items) : Walk.items[i] = Successor(Walk.items[i - 1])

\* C34, amended: next() advances and then yields: the first next() returns the
\* FAT successor of start, each later next() the successor of the cluster
\* returned before, and next() returns None once the entry of start or of the
\* last returned cluster is EndOfChain, Bad or Free; start itself is never
\* yielded (unless the chain comes back to it).
C34_IterYieldsSuccessors ==
    last.op = "cluster_iter" =>
        /\ Walk.items[1] = Successor(Some(Walk.start))
        /\ \A i \in 2..Len(Walk.items) : Walk.items[i] = Successor(Walk.items[i - 1])

\* a walk from 3 over 2 and 5, where the chain ends
C34_Witness ==
    /\ last.op = "cluster_iter"
    /\ Walk.start = 3
    /\ Walk.items[1] = Some(2) /\ Walk.items[2] = Some(5) /\ Walk.items[3] = None
    /\ ReadFat(fat, fat_type, 5) = EndOfChain

\* the records of the root directory in stream order: record i is RootRecs[i + 1]
RootRecs == StreamRecs(W, root_dir)

\* record i of the root directory is a freed one (first byte 0xE5)
FreeAt(i) == i < Len(RootRecs) /\ is_free(RootRecs[i + 1])

\* the index of the first end-of-directory record; where the stream ends when
\* there is none (deserialize gives an end record there)
EndAt ==
    LET ends == {i \in 0..(Len(RootRecs) - 1) : is_end(RootRecs[i + 1])}
    IN IF ends = {} THEN Len(RootRecs) ELSE CHOOSE i \in ends : \A j \in ends : i <= j

\* records g .. g + n - 1 are freed ones in front of the end of the directory
FreeRun(g, n) == \A j \in g..(g + n - 1) : j < EndAt /\ FreeAt(j)

\* C35: find_free_entries(n) returns a stream at record f such that: when there
\* is a run of n freed records in front of the first end-of-directory record, f
\* starts the first such run; otherwise every record from f up to the end of
\* the directory is a freed one, the record in front of f is not, and the end is
\* reached before n freed records.  Either way no record in use lies among the
\* n records from f on in front of the end of the directory.
C35_FindFreeEntries ==
    last.op = "find_free_entries" =>
        LET n == last.arg[1]
            f == last.n
            runs == {g \in 0..EndAt : FreeRun(g, n)}
        IN /\ IF runs # {}
              THEN f \in runs /\ \A g \in runs : f <= g
              ELSE /\ f <= EndAt /\ EndAt - f < n
                   /\ \A j \in f..(EndAt - 1) : FreeAt(j)
                   /\ f > 0 => ~FreeAt(f - 1)
           /\ \A j \in f..(f + n - 1) : j < EndAt => FreeAt(j)

\* two records asked for: the single freed record 0 is passed over for the run
\* that record 2 starts
C35_Witness ==
    /\ last.op = "find_free_entries" /\ last.arg = <<2>> /\ last.n = 2
    /\ FreeAt(0) /\ ~FreeAt(1) /\ FreeAt(2) /\ FreeAt(3) /\ EndAt >= 4

\* the root directory before the last call
PreRecs == StreamRecs(PreW, root_dir)

\* a long-name record in use; a regular record in use: neither an end
\* record, nor a freed one, nor the volume label
LfnInUse(rec) == is_lfn(rec) /\ ~is_free(rec)
ShortInUse(rec) == ~is_lfn(rec) /\ ~is_end(rec) /\ ~is_free(rec) /\ ~is_volume(rec)

\* range is the offset_range of the regular record in use that the long-name
\* records in use right in front of it lead to: it starts at the first of them
\* and ends behind the regular record
SpansEntry(recs, range) ==
    LET b == range[1] \div DIR_ENTRY_SIZE
        e == range[2] \div DIR_ENTRY_SIZE
    IN /\ range[1] = b * DIR_ENTRY_SIZE /\ range[2] = e * DIR_ENTRY_SIZE
       /\ 0 <= b /\ b < e /\ e <= Len(recs)
       /\ ShortInUse(recs[e])
       /\ \A j \in (b + 1)..(e - 1) : LfnInUse(recs[j])
       /\ b > 0 => ~LfnInUse(recs[b])

\* C36: the entry iter() yields for a regular record that k >= 0 long-name
\* records in use immediately precede has offset_range = [position of the first
\* of them, end of the regular record), 32 * (k + 1) bytes; a freed record or
\* the volume label in between starts the range anew behind it; every regular
\* record in use in front of the end of the directory is yielded; and remove()
\* of the entry marks exactly the k + 1 records of its range free.
C36_OffsetRangeSpansLfn ==
    /\ last.op = "iter" =>
          /\ \A i \in 1..Len(last.arg) : SpansEntry(RootRecs, last.arg[i])
          /\ \A j \in 1..EndAt : ShortInUse(RootRecs[j]) =>
                \E i \in 1..Len(last.arg) : last.arg[i][2] = j * DIR_ENTRY_SIZE
    /\ (last.op = "remove" /\ last.res = "Ok") =>
          LET e == find_entry(PreW, root_dir, last.path).e
          IN /\ SpansEntry(PreRecs, e.offset_range)
             /\ Len(RootRecs) = Len(PreRecs)
             /\ \A j \in 1..Len(RootRecs) :
                   IF (j - 1) * DIR_ENTRY_SIZE >= e.offset_range[1]
                      /\ j * DIR_ENTRY_SIZE <= e.offset_range[2]
                   THEN is_free(RootRecs[j])
                   ELSE RootRecs[j] = PreRecs[j]

\* the file A behind two long-name records that follow a freed record was
\* removed: records 1, 2 and 3 are free now
C36_Witness ==
    /\ last.op = "remove" /\ last.res = "Ok"
    /\ Len(PreRecs) >= 4
    /\ is_free(PreRecs[1]) /\ LfnInUse(PreRecs[2]) /\ LfnInUse(PreRecs[3])
    /\ ShortInUse(PreRecs[4])
    /\ find_entry(PreW, root_dir, last.path).e.offset_range = <<32, 128>>
    /\ is_free(RootRecs[2]) /\ is_free(RootRecs[3]) /\ is_free(RootRecs[4])

\* the character a character of a long name becomes in a short name
ShortNameByte(c) ==
    IF c \in {46, 43, 44, 59, 61, 91, 93, 32} \/ c >= 128 THEN 63
    ELSE IF c >= 97 /\ c <= 122 THEN c - 32
    ELSE c

\* the 11 bytes the reference algorithm gives for name
ReferenceShortName(name) ==
    LET dots == {i \in 1..Len(name) : name[i] = 46 /\ \A j \in (i + 1)..Len(name) : name[j] # 46}
        dot == IF dots = {} THEN Len(name) + 1 ELSE CHOOSE i \in dots : TRUE
        base == [i \in 1..(dot - 1) |-> name[i]]
        ext == [i \in 1..(Len(name) - dot) |-> name[dot + i]]
    IN [i \in 1..11 |->
           IF i <= 8
           THEN IF i <= Len(base) THEN ShortNameByte(base[i]) ELSE 32
           ELSE IF i - 8 <= Len(ext) THEN ShortNameByte(ext[i - 8]) ELSE 32]

\* C37: generate_short_name gives, for every name, the 11 bytes of the
\* reference algorithm: spaces, over which bytes 0..8 are filled from the text
\* in front of the last '.' (the whole name when it has none) and bytes 8..11
\* from the text behind it, each character mapped to '?' when it is one of
\* . + , ; = [ ] or space or is >= 0x80 and to its ASCII upper case otherwise,
\* up to the length of the part.
C37_ShortNameSynthesis ==
    last.op = "generate_short_name" => last.out = ReferenceShortName(last.arg)

\* "a." followed by ".jklm" and the e with an acute: the base holds a dot and
\* the extension is longer than its three bytes
C37_Witness ==
    /\ last.op = "generate_short_name"
    /\ last.arg = <<97, 46, 46, 106, 107, 108, 109, 233>>
    /\ last.out = <<65, 63, 32, 32, 32, 32, 32, 32, 74, 75, 76>>

\* C38: on FAT12 and FAT16 first_cluster reads the first cluster from
\* first_cluster_lo alone, and a record whose first cluster was set is
\* written with first_cluster_hi = 0 (bytes 20 and 21 of the record), also when
\* the record was read from the volume with first_cluster_hi # 0.
C38_HiIgnoredAndZeroed ==
    (last.op = "set_first_cluster" /\ fat_type # "Fat32") =>
        LET data == last.arg[1]
            cluster == last.arg[2]
        IN /\ last.out.first = IF data.lo = 0 THEN None ELSE Some(data.lo)
           /\ first_cluster(last.out.set, fat_type)
                 = IF cluster = None THEN None ELSE Some(cluster[1] % 65536)
           /\ last.out.bytes[21] = 0 /\ last.out.bytes[22] = 0

\* C39: serialize of a regular record gives 32 bytes that deserialize to a
\* regular record equal to it field by field, and serialize of that record
\* gives the same 32 bytes; the same holds for a long-name record.
C39_RecordRoundTrip ==
    last.op = "serialize" =>
        /\ Len(last.out.bytes) = DIR_ENTRY_SIZE
        /\ last.out.back.kind = last.arg.kind
        /\ last.out.back.data = last.arg.data
        /\ last.out.again = last.out.bytes

\* a regular record none of whose fields is zero: its size 0x12345678 is
\* stored as 78 56 34 12, its first_cluster_hi 0x0708 as 08 07
C39_Witness ==
    /\ last.op = "serialize" /\ last.arg.kind = "File"
    /\ last.arg.data.size = 305419896 /\ last.arg.data.hi = 1800
    /\ last.arg.data.lo = 3342 /\ last.arg.data.modify_date = 2828
    /\ SubSeq(last.out.bytes, 29, 32) = <<120, 86, 52, 18>>
    /\ SubSeq(last.out.bytes, 21, 22) = <<8, 7>>
    /\ last.out.back = last.arg

====
